---------------------------- MODULE Spec2Model ----------------------------
(***************************************************************************)
(* Handshake orchestration of the snowy tunnel (noisy-shuttle):            *)
(*   tunnel/src/server.rs        Server::accept_with_early_data, the relay *)
(*   tunnel/src/client.rs        Client::connect_with_early_data           *)
(*   snowy-tunnel/src/client.rs  the older Client::connect                 *)
(*                                                                         *)
(* Byte strings that carry key material are modelled symbolically: a byte  *)
(* string is a finite set of atoms and XOR is the symmetric difference of  *)
(* two such sets, so XOR keeps its algebra (associative, commutative,      *)
(* self-inverse) and two strings are equal only if they were built from    *)
(* the same atoms.  Noise and TOTP outputs are atoms that name the inputs  *)
(* they were computed from (an ideal hash / AEAD).                         *)
(***************************************************************************)
EXTENDS Integers, Sequences, FiniteSets, TLC

(***************************************************************************)
(* Bounds of the model.                                                    *)
(***************************************************************************)
NConn == 2              \* ConcSpec: connections served at a time
ConcEph == 2            \* ConcSpec: ClientHellos honest clients create
MaxEph == 3             \* Spec: ClientHellos honest clients create in a run
MaxTicks == 3           \* HsSpec: periods the server clock advances in a run
MaxEd == 1              \* early data values are 0..MaxEd
MaxRelayRecords == 3    \* records one relay direction reads at most
MaxClientTurns == 4     \* turns of the loop of the client's tls12_handshake
TotpSpan == 200         \* TotpSpec: client clock within +-TotpSpan (+1) s
replay_filter_size == 2 \* capacity handed to Server::new

(***************************************************************************)
(* Program constants.                                                      *)
(***************************************************************************)
period == 60            \* Totp::new(key, 60, 2)
skew_off_by_one == 2 - 1
skew == 2               \* Totp::new(key, 60, 2)
HANDSHAKE == 22         \* 0x16
CHANGE_CIPHER_SPEC == 20 \* 0x14
APPLICATION_DATA == 23  \* 0x17
TLS_RECORD_HEADER_LENGTH == 5
MAXIMUM_CIPHERTEXT_LENGTH == 16640
DataBufLen == 2048
StartClock == 100 * period \* wall clock at the start of a run, in seconds

Conns == 1..NConn
Addrs == {1, 2}         \* Spec: the peer addresses clients connect from
EarlyDatas == 0..MaxEd
Keys == {1, 2}
\* the key the server was built with; the other key is one it does not hold
server_key == CHOOSE k \in Keys : \A j \in Keys : k <= j
wrong_key == CHOOSE k \in Keys : k # server_key
GarbageEd == 0 - 1      \* payload bytes left behind by a failed Noise read

(***************************************************************************)
(* Symbolic byte strings.                                                  *)
(***************************************************************************)
Atom(t, k, e, x) == [t |-> t, k |-> k, e |-> e, x |-> x]
EphAtom(i) == Atom("E", 0, {}, i)           \* a client's Noise ephemeral
SrvEphAtom(i) == Atom("S", 0, {}, i)        \* a server's Noise ephemeral
MaskAtom(key) == Atom("M", key, {}, 0)
TokAtom(key, step) == Atom("T", key, {}, step)
CtAtom(key, e, ed) == Atom("C", key, e, ed)
TagAtom(key, e, ed) == Atom("G", key, e, ed)
PongTagAtom(key, e, se) == Atom("P", key, e, se)
JunkAtom(i) == Atom("J", 0, {}, i)          \* bytes of an attacker's choosing

\* utils::Xor::xored
Xor(a, b) == (a \ b) \cup (b \ a)

\* utils::hmac(NO_ELLIGATOR_WORKAROUND, key)
PointMask(key) == {MaskAtom(key)}

(***************************************************************************)
(* TOTP (totp.rs).                                                         *)
(***************************************************************************)
TotpStep(t) == t \div period

\* Totp::generate_current
GenerateCurrent(key, t) == {TokAtom(key, TotpStep(t))}

\* offsets 0, +1, -1, +2, -2, ...
SkewOffset(i) == IF i % 2 = 0 THEN i \div 2 ELSE -(i \div 2)

\* Totp::generate_current_skewed
GenerateCurrentSkewed(key, t, k) ==
    [i \in 1..(2 * k + 1) |-> {TokAtom(key, TotpStep(t) + SkewOffset(i))}]

(***************************************************************************)
(* Noise NNpsk0, first message (-> psk, e) with a 16-byte payload.         *)
(***************************************************************************)
\* snow write_message: ephemeral(32) || ciphertext(16) || tag(16)
NoiseWritePing(key, e, ed) ==
    [p0 |-> {EphAtom(e)},
     p1 |-> {CtAtom(key, {EphAtom(e)}, ed)},
     p2 |-> {TagAtom(key, {EphAtom(e)}, ed)}]

\* snow read_message on the responder: the payload decrypts and the tag
\* verifies only for the ciphertext made under the same psk and ephemeral
NoiseReadPing(key, ping) ==
    LET fits == {ed \in EarlyDatas :
                    /\ ping.p1 = {CtAtom(key, ping.p0, ed)}
                    /\ ping.p2 = {TagAtom(key, ping.p0, ed)}}
    IN  IF fits = {} THEN [ok |-> FALSE, payload |-> GarbageEd]
        ELSE [ok |-> TRUE, payload |-> CHOOSE ed \in fits : TRUE]

(***************************************************************************)
(* TLS records.  ok: the framing is one read_tls_message accepts.          *)
(* blen: the body length; body: what is known of the body's bytes, b0 its  *)
(* bytes 0..32, b1 its bytes 32..48, f16 its bytes 0..16, tail its last    *)
(* bytes, fill the range [from, to) of the record's bytes that was filled  *)
(* at random when the record was built.                                    *)
(***************************************************************************)
NoSid == [len |-> 0, lo |-> {}, hi |-> {}]
NoBody == [b0 |-> {}, b1 |-> {}, f16 |-> {}, tail |-> "none",
           fill |-> <<0, 0>>]
TlsRec(ctype, ok, hs, tls13, random, sid, blen) ==
    [ctype |-> ctype, ok |-> ok, hs |-> hs, tls13 |-> tls13,
     random |-> random, sid |-> sid, blen |-> blen, body |-> NoBody,
     ver |-> <<3, 3>>, nbytes |-> TLS_RECORD_HEADER_LENGTH + blen]

\* server.rs 201-202, client.rs 245-246: the five header bytes written for
\* a record of type ctype and body length len (`len as u16`, big-endian)
RecordHeader(ctype, len) ==
    <<ctype, 3, 3, ((len % 65536) \div 256), len % 256>>

\* the body length a reader takes from a header
HeaderLength(h) == h[4] * 256 + h[5]

\* a record built in place: its header bytes, and as many bytes as the
\* buffer was set to hold (set_len)
BuiltRecord(h, nbytes) ==
    [TlsRec(h[1], TRUE, "none", FALSE, {}, NoSid, HeaderLength(h))
        EXCEPT !.ver = <<h[2], h[3]>>, !.nbytes = nbytes]
NoRec == TlsRec(0, FALSE, "none", FALSE, {}, NoSid, 0)

\* the ClientHello the client's TLS library emits around a ping
ClientHelloRec(ping) ==
    TlsRec(HANDSHAKE, TRUE, "ClientHello", TRUE, ping.p0,
           [len |-> 32, lo |-> ping.p1, hi |-> ping.p2], 200)

\* client.rs: the ping of connect_with_early_data
ClientPing(key, e, ed, t) ==
    LET ping == NoiseWritePing(key, e, ed)
    IN  [ping EXCEPT !.p0 = Xor(@, PointMask(key)),
                     !.p2 = Xor(@, GenerateCurrent(key, t))]

(***************************************************************************)
(* State.                                                                  *)
(*   now            the server's wall clock, in seconds                    *)
(*   env            what the environment may still do in this run          *)
(*   nextEph        the next fresh client ephemeral                        *)
(*   captured       ClientHello records seen on the wire (replayable)      *)
(*   clientSent     history: what each honest client put into its ping     *)
(*   replay_filter  Server.replay_filter, least recently used entry first  *)
(*   rf_lock        holder of the replay_filter mutex, 0 when free         *)
(*   conn           per accepted connection: the locals of                 *)
(*                  accept_with_early_data and its position                *)
(*   everInserted, w  history of the replay filter (see below)             *)
(*   cli            the locals of one Client::connect_with_early_data and  *)
(*                  its position                                           *)
(***************************************************************************)
VARIABLES now, env, nextEph, captured, clientSent, replay_filter, rf_lock,
          conn, everInserted, w, cli

vars == <<now, env, nextEph, captured, clientSent, replay_filter, rf_lock,
          conn, everInserted, w, cli>>

\* the state of the server side
srvVars == <<now, env, nextEph, captured, clientSent, replay_filter, rf_lock,
             conn, everInserted, w>>

NoPing == [p0 |-> {}, p1 |-> {}, p2 |-> {}]
NoPong == [q0 |-> {}, q1 |-> {}]
NoErr == [from |-> "none", kind |-> "none"]
NoRet == [variant |-> "none", buf |-> NoRec, io |-> 0, nonce |-> {},
          first_from |-> 0, outbound |-> 0, early_data |-> GarbageEd,
          err |-> NoErr]
\* a relay direction: data_buf, the length of its data buffer; taken and put,
\* the bytes it consumed from its read side and wrote to its write side in
\* the turns it completed; read and wrote, the record its last turn met on
\* the read side and what that turn wrote (the header bytes and the slice of
\* data_buf)
NoDir == [st |-> "idle", has_seen_change_cipher_spec |-> FALSE, last |-> 0,
          n |-> 0, seen_ccs_before |-> FALSE,
          data_buf |-> DataBufLen, taken |-> 0, put |-> 0,
          read |-> [ctype |-> 0, blen |-> 0],
          wrote |-> [hdr |-> <<>>, body |-> <<0, 0>>]]

IdleConn ==
    [pc |-> "idle", peer |-> 0, wire |-> NoRec, buf |-> NoRec, ping |-> NoPing,
     early_data |-> 0, e |-> {}, chsid |-> NoSid, outbound |-> "none",
     pong |-> NoPong, branch |-> "none", sent_in |-> <<>>, sent_out |-> <<>>,
     read_out |-> <<>>,
     rin |-> NoDir, rout |-> NoDir, transport |-> 0, ret |-> NoRet,
     at |-> 0, g_tx_out |-> "none", g_tx_wrote |-> 0,
     rchk |-> "none", g_prev |-> FALSE, g_w |-> FALSE, g_pres |-> 0,
     g_ins |-> 0, g_cur |-> 0, g_first |-> 0, g_evicted |-> FALSE]

\* a turn of the loop of tls12_handshake: what the TLS library wanted and
\* the arm of the match that ran
NoTurn == [wants_read |-> FALSE, wants_write |-> FALSE, arm |-> "none"]

\* the client before connect_with_early_data is called
IdleClient ==
    [pc |-> "idle", key |-> 0, early_data |-> 0, e |-> 0, sid |-> NoSid,
     buf |-> NoRec, pong |-> NoPong, branch |-> "none", seen_ccs |-> FALSE,
     n |-> 0, sent |-> <<>>, deviation |-> "none", res |-> "none",
     rd |-> 0, last |-> 0, rlen |-> 0, transport |-> 0, older |-> FALSE,
     turn |-> NoTurn]

\* inbound.peer_addr() of the connection in slot c
PeerAddr(c) == conn[c].peer

\* history of one watched nonce of the replay filter
NoWatch == [on |-> FALSE, n |-> {}, first |-> 0, cur |-> 0, pres |-> {},
            ins |-> {}]

(***************************************************************************)
(* lru::LruCache, as a sequence of entries, least recently used first.     *)
(***************************************************************************)
LruIndex(rf, k) ==
    IF \E i \in 1..Len(rf) : rf[i].k = k
    THEN CHOOSE i \in 1..Len(rf) : rf[i].k = k
    ELSE 0

LruRemove(rf, i) == [j \in 1..(Len(rf) - 1) |-> IF j < i THEN rf[j] ELSE rf[j + 1]]

\* LruCache::get: a hit makes the entry the most recently used
LruGet(rf, k) ==
    LET i == LruIndex(rf, k)
    IN  IF i = 0 THEN [hit |-> FALSE, v |-> 0, rf |-> rf]
        ELSE [hit |-> TRUE, v |-> rf[i].v,
              rf |-> Append(LruRemove(rf, i), rf[i])]

LruPut_evicts_early(rf, cap, k, v) ==
    LET i == LruIndex(rf, k)
    IN  IF i # 0 THEN Append(LruRemove(rf, i), [k |-> k, v |-> v])
        ELSE IF Len(rf) >= cap - 1
             THEN Append(Tail(rf), [k |-> k, v |-> v])
             ELSE Append(rf, [k |-> k, v |-> v])
\* LruCache::put: a new key evicts the least recently used entry of a full
\* cache; a present key gets the new value and becomes most recently used
LruPut(rf, cap, k, v) ==
    LET i == LruIndex(rf, k)
    IN  IF i # 0 THEN Append(LruRemove(rf, i), [k |-> k, v |-> v])
        ELSE IF Len(rf) >= cap
             THEN Append(Tail(rf), [k |-> k, v |-> v])
             ELSE Append(rf, [k |-> k, v |-> v])

LruKeys(rf) == {rf[i].k : i \in 1..Len(rf)}

(***************************************************************************)
(* Server::accept_with_early_data, up to the replay check.                 *)
(***************************************************************************)
ServerPing_unmasked(chp, mask) ==
    [p0 |-> chp.random, p1 |-> chp.sid.lo, p2 |-> chp.sid.hi]
\* server.rs 107-109, 121: the ping from ClientHello random and session id,
\* bytes 0..32 unmasked
ServerPing(chp, mask) ==
    [p0 |-> Xor(chp.random, mask), p1 |-> chp.sid.lo, p2 |-> chp.sid.hi]

\* server.rs 124-131: one skewed token after the other; clobber: whether a
\* failed read_message leaves garbage in the payload buffer; attempts: the
\* calls of read_message made
RECURSIVE AuthFrom(_, _, _, _, _, _)
AuthFrom(i, tokens, key, ping, early_data, clobber) ==
    IF i > Len(tokens)
    THEN [verified |-> FALSE, ping |-> ping, early_data |-> early_data,
          attempts |-> i - 1]
    ELSE LET tried == [ping EXCEPT !.p2 = Xor(@, tokens[i])]
             r == NoiseReadPing(key, tried)
         IN  IF r.ok
             THEN [verified |-> TRUE, ping |-> tried, early_data |-> r.payload,
                   attempts |-> i]
             ELSE AuthFrom(i + 1, tokens, key,
                           [tried EXCEPT !.p2 = Xor(@, tokens[i])],
                           IF clobber THEN GarbageEd ELSE early_data, clobber)

AuthLoop_zero_early_data(tokens, key, ping, clobber) ==
    [AuthFrom(1, tokens, key, ping, 0, clobber) EXCEPT !.early_data = 0]
AuthLoop_no_revert(tokens, key, ping, clobber) ==
    LET first == [ping EXCEPT !.p2 = Xor(@, tokens[1])]
    IN  IF NoiseReadPing(key, first).ok
        THEN AuthFrom(1, tokens, key, ping, 0, clobber)
        ELSE AuthFrom(2, tokens, key, first, 0, clobber)
AuthLoop_unchecked(tokens, key, ping, clobber) ==
    [AuthFrom(1, tokens, key, ping, 0, clobber) EXCEPT !.verified = TRUE]
AuthLoop(tokens, key, ping, clobber) ==
    AuthFrom(1, tokens, key, ping, 0, clobber)

\* the AcceptError variants and the panic of an expect/unwrap
IoError == [NoRet EXCEPT !.variant = "IoError"]
Panic == [NoRet EXCEPT !.variant = "panic"]
ClientHelloInvalid(buf, io) ==
    [NoRet EXCEPT !.variant = "ClientHelloInvalid", !.buf = buf, !.io = io]
Unauthenticated_stale_buf(buf, io) ==
    [NoRet EXCEPT !.variant = "Unauthenticated", !.buf = NoRec, !.io = io]
Unauthenticated(buf, io) ==
    [NoRet EXCEPT !.variant = "Unauthenticated", !.buf = buf, !.io = io]
ReplayDetected(buf, io, nonce, first_from) ==
    [NoRet EXCEPT !.variant = "ReplayDetected", !.buf = buf, !.io = io,
                  !.nonce = nonce, !.first_from = first_from]
ServerHelloInvalid(buf, inbound, outbound) ==
    [NoRet EXCEPT !.variant = "ServerHelloInvalid", !.buf = buf,
                  !.io = inbound, !.outbound = outbound]

\* the function returns r; an outbound connection it still owns is dropped
Returned(k, r) ==
    [k EXCEPT !.pc = "returned", !.ret = r,
              !.outbound = IF k.outbound = "open" /\ r.outbound = 0
                           THEN "closed" ELSE k.outbound]

OnFirstRecord_replay_first(c, addr, item, eof, t, clobber) ==
    LET k == [IdleConn EXCEPT !.peer = addr, !.wire = item, !.at = t,
                              !.buf = IF eof THEN NoRec ELSE item]
    IN  IF eof THEN Returned(k, IoError)
        ELSE IF ~(item.ok /\ item.hs = "ClientHello")
        THEN Returned(k, ClientHelloInvalid(k.buf, c))
        ELSE LET a == AuthLoop(GenerateCurrentSkewed(server_key, t, skew),
                               server_key,
                               ServerPing(item, PointMask(server_key)),
                               clobber)
             IN  [k EXCEPT !.pc = "rf_lock", !.ping = a.ping,
                           !.early_data = a.early_data,
                           !.e = a.ping.p0, !.chsid = item.sid]
\* server.rs 94-134: the first record has been read from inbound
OnFirstRecord(c, addr, item, eof, t, clobber) ==
    LET k == [IdleConn EXCEPT !.peer = addr, !.wire = item, !.at = t,
                              !.buf = IF eof THEN NoRec ELSE item]
    IN  IF eof THEN Returned(k, IoError)
        ELSE IF ~(item.ok /\ item.hs = "ClientHello")
        THEN Returned(k, ClientHelloInvalid(k.buf, c))
        ELSE LET a == AuthLoop(GenerateCurrentSkewed(server_key, t, skew),
                               server_key,
                               ServerPing(item, PointMask(server_key)),
                               clobber)
             IN  IF ~a.verified
                 THEN Returned([k EXCEPT !.ping = a.ping,
                                         !.early_data = a.early_data],
                               Unauthenticated(k.buf, c))
                 ELSE [k EXCEPT !.pc = "rf_lock", !.ping = a.ping,
                                !.early_data = a.early_data,
                                !.e = a.ping.p0, !.chsid = item.sid]

\* what may arrive as the first record besides an honest ClientHello
Tampered(h) == [h EXCEPT !.sid.hi = Xor(@, {JunkAtom(1)})]
NotClientHello ==
    {TlsRec(APPLICATION_DATA, TRUE, "none", FALSE, {}, NoSid, 64),
     TlsRec(HANDSHAKE, FALSE, "none", FALSE, {}, NoSid, 64)}

\* an honest client holding the server's key connects now
AcceptFresh(c) ==
    /\ conn[c].pc = "idle" /\ c \in env.slots
    /\ nextEph <= env.fresh
    /\ \E ed \in env.eds, clobber \in BOOLEAN, addr \in env.addrs :
         LET h == ClientHelloRec(ClientPing(server_key, nextEph, ed,
                                            now + env.drift))
         IN  /\ conn' = [conn EXCEPT ![c] =
                          OnFirstRecord(c, addr, h, FALSE, now, clobber)]
             /\ captured' = captured \cup {h}
             /\ clientSent' = clientSent @@ (nextEph :> [ed |-> ed, t |-> now + env.drift])
    /\ nextEph' = nextEph + 1
    /\ UNCHANGED <<now, env, replay_filter, rf_lock, everInserted, w, cli>>

\* a client holding another key connects now
AcceptWrongKey(c) ==
    /\ conn[c].pc = "idle" /\ c \in env.slots
    /\ \E ed \in env.eds, clobber \in BOOLEAN, addr \in env.addrs :
         conn' = [conn EXCEPT ![c] =
                    OnFirstRecord(c, addr,
                                  ClientHelloRec(ClientPing(wrong_key, 0, ed,
                                                           now + env.drift)),
                                  FALSE, now, clobber)]
    /\ UNCHANGED <<now, env, nextEph, captured, clientSent, replay_filter,
                   rf_lock, everInserted, w, cli>>

\* a captured ClientHello is presented again, as it was or with its tag changed
AcceptCaptured(c) ==
    /\ conn[c].pc = "idle" /\ c \in env.slots
    /\ \E h \in captured, tamper \in env.tamper, clobber \in BOOLEAN,
          addr \in env.addrs :
         conn' = [conn EXCEPT ![c] =
                    OnFirstRecord(c, addr, IF tamper THEN Tampered(h) ELSE h,
                                  FALSE, now, clobber)]
    /\ UNCHANGED <<now, env, nextEph, captured, clientSent, replay_filter,
                   rf_lock, everInserted, w, cli>>

\* something else arrives, or the peer closes
AcceptOther(c) ==
    /\ conn[c].pc = "idle" /\ c \in env.slots
    /\ \E addr \in env.addrs :
         \/ \E r \in NotClientHello :
              conn' = [conn EXCEPT ![c] =
                         OnFirstRecord(c, addr, r, FALSE, now, FALSE)]
         \/ conn' = [conn EXCEPT ![c] =
                       OnFirstRecord(c, addr, NoRec, TRUE, now, FALSE)]
    /\ UNCHANGED <<now, env, nextEph, captured, clientSent, replay_filter,
                   rf_lock, everInserted, w, cli>>

(***************************************************************************)
(* The replay check, server.rs 137-149, under the replay_filter mutex.     *)
(* History kept beside it: everInserted, the nonces ever put into the      *)
(* filter; w, for one nonce chosen when it is first put: the address that  *)
(* put it first (first), the address that put the entry last (cur), the    *)
(* other nonces presented to the filter (pres) and put into it (ins) since *)
(* the watched nonce was last presented.                                   *)
(***************************************************************************)
LockFree_unlocked == TRUE
LockFree == rf_lock = 0

\* server.rs 139: replay_filter.lock()
RfLock(c) ==
    /\ conn[c].pc = "rf_lock"
    /\ LockFree
    /\ rf_lock' = c
    /\ conn' = [conn EXCEPT ![c].pc = "rf_get"]
    /\ UNCHANGED <<now, env, nextEph, captured, clientSent, replay_filter,
                   everInserted, w, cli>>

FirstFrom_current_peer(stored, peer) == peer
\* server.rs 140, 145: first_from is the stored address
FirstFrom(stored, peer) == stored

\* server.rs 140-147: rf.get(&e); a hit returns ReplayDetected
RfGet(c) ==
    /\ conn[c].pc = "rf_get"
    /\ LET k == conn[c]
           g == LruGet(replay_filter, k.e)
           seen == [k EXCEPT !.g_prev = k.e \in everInserted,
                             !.g_w = w.on /\ w.n = k.e,
                             !.g_pres = Cardinality(w.pres),
                             !.g_ins = Cardinality(w.ins),
                             !.g_cur = w.cur, !.g_first = w.first]
       IN  IF g.hit
           THEN /\ replay_filter' = g.rf
                /\ rf_lock' = 0
                /\ conn' = [conn EXCEPT ![c] =
                      Returned([seen EXCEPT !.rchk = "replay"],
                               ReplayDetected(k.buf, c, k.e,
                                              FirstFrom(g.v, PeerAddr(c))))]
                /\ w' = IF ~w.on THEN w
                        ELSE IF w.n = k.e
                        THEN [w EXCEPT !.pres = {}, !.ins = {}]
                        ELSE [w EXCEPT !.pres = @ \cup {k.e}]
           ELSE /\ conn' = [conn EXCEPT ![c] =
                      [seen EXCEPT !.rchk = "pass", !.pc = "rf_put"]]
                /\ UNCHANGED <<replay_filter, rf_lock, w, cli>>
    /\ UNCHANGED <<now, env, nextEph, captured, clientSent, everInserted, cli>>

PutEntry_skipped(rf, e, addr) == rf
PutEntry_masked(rf, e, addr) ==
    LruPut(rf, replay_filter_size, Xor(e, PointMask(server_key)), addr)
\* server.rs 148: rf.put(e, inbound.peer_addr())
PutEntry(rf, e, addr) == LruPut(rf, replay_filter_size, e, addr)

\* server.rs 148-149: the put, and the guard is dropped
RfPut(c) ==
    /\ conn[c].pc = "rf_put"
    /\ replay_filter' = PutEntry(replay_filter, conn[c].e, PeerAddr(c))
    /\ rf_lock' = 0
    /\ conn' = [d \in Conns |->
                  IF d = c THEN [conn[c] EXCEPT !.pc = "connect"]
                  ELSE IF /\ conn[d].rchk = "pass"
                          /\ conn[d].e \in LruKeys(replay_filter)
                          /\ conn[d].e \notin LruKeys(replay_filter')
                       THEN [conn[d] EXCEPT !.g_evicted = TRUE]
                       ELSE conn[d]]
    /\ everInserted' = everInserted \cup {conn[c].e}
    /\ IF w.on
       THEN w' = IF w.n = conn[c].e
                 THEN [w EXCEPT !.cur = PeerAddr(c), !.pres = {}, !.ins = {}]
                 ELSE [w EXCEPT !.pres = @ \cup {conn[c].e},
                                !.ins = @ \cup {conn[c].e}]
       ELSE \/ w' = w
            \/ /\ conn[c].e \notin everInserted
               /\ w' = [on |-> TRUE, n |-> conn[c].e, first |-> PeerAddr(c),
                        cur |-> PeerAddr(c), pres |-> {}, ins |-> {}]
    /\ UNCHANGED <<now, env, nextEph, captured, clientSent, cli>>

(***************************************************************************)
(* Server::accept_with_early_data after the replay check.  One action per  *)
(* await: it takes the completion of the pending read, write or connect    *)
(* and runs the code up to the next one.  io_ok = FALSE is an I/O error of *)
(* the pending operation.                                                  *)
(***************************************************************************)
\* server.rs 151: TcpStream::connect(&self.camouflage_addr)
ConnectCamouflage(c) ==
    /\ conn[c].pc = "connect"
    /\ \E io_ok \in BOOLEAN :
         conn' = [conn EXCEPT ![c] =
                    IF io_ok THEN [@ EXCEPT !.outbound = "open", !.pc = "fwd_ch"]
                    ELSE Returned(@, IoError)]
    /\ UNCHANGED <<now, env, nextEph, captured, clientSent, replay_filter,
                   rf_lock, everInserted, w, cli>>

\* server.rs 154: outbound.write_all(&buf)
ForwardClientHello(c) ==
    /\ conn[c].pc = "fwd_ch"
    /\ \E io_ok \in BOOLEAN :
         conn' = [conn EXCEPT ![c] =
                    IF io_ok THEN [@ EXCEPT !.sent_out = Append(@, conn[c].buf),
                                            !.pc = "read_sh"]
                    ELSE Returned(@, IoError)]
    /\ UNCHANGED <<now, env, nextEph, captured, clientSent, replay_filter,
                   rf_lock, everInserted, w, cli>>

\* what the camouflage server may answer a ClientHello with
OtherSid == [len |-> 32, lo |-> {JunkAtom(3)}, hi |-> {JunkAtom(4)}]
ServerHelloRec(tls13, sid) ==
    TlsRec(HANDSHAKE, TRUE, "ServerHello", tls13, {JunkAtom(2)}, sid, 90)
CamouflageAnswers(chsid) ==
    {ServerHelloRec(v, sid) : v \in BOOLEAN, sid \in {chsid, OtherSid}}
    \cup {TlsRec(HANDSHAKE, FALSE, "none", FALSE, {}, NoSid, 90),
          TlsRec(APPLICATION_DATA, TRUE, "none", FALSE, {}, NoSid, 2)}

\* snow write_message on the responder: ephemeral(32) || tag(16)
NoiseWritePong(key, e, se) ==
    [q0 |-> {SrvEphAtom(se)}, q1 |-> {PongTagAtom(key, e, se)}]

ServerPong_unmasked(key, e, se) == NoiseWritePong(key, e, se)
\* server.rs 174-185: the pong, bytes 0..32 masked
ServerPong(key, e, se) ==
    [NoiseWritePong(key, e, se) EXCEPT !.q0 = Xor(@, PointMask(key))]

\* rustls SessionID equality: the length and the bytes in use
SameSessionId(a, b) ==
    /\ a.len = b.len
    /\ a.len > 0 => (a.lo = b.lo /\ a.hi = b.hi)

ServerBranch_session_id_first(chsid, shp) ==
    IF SameSessionId(chsid, shp.sid) THEN "resumed"
    ELSE IF shp.tls13 THEN "tls13" ELSE "full"
\* server.rs 187, 215: the branch the server takes on a ServerHello
ServerBranch(chsid, shp) ==
    IF shp.tls13 THEN "tls13"
    ELSE IF SameSessionId(chsid, shp.sid) THEN "resumed" ELSE "full"

\* a ServerHello record: the record header, the handshake header (type and
\* 3 length bytes) and the 2 version bytes precede the 32 random bytes
ServerHelloRandomOffset == TLS_RECORD_HEADER_LENGTH + 4 + 2

SERVER_HELLO_RANDOM_START_INDEX_no_header == 0 + 6
\* server.rs 25
SERVER_HELLO_RANDOM_START_INDEX == TLS_RECORD_HEADER_LENGTH + 6

\* server.rs 218-219: buf[at..at + 32].copy_from_slice(bytes) on a
\* ServerHello record; elsewhere than at its random it changes other bytes
OverwriteAt(rec, at, bytes) ==
    IF at = ServerHelloRandomOffset THEN [rec EXCEPT !.random = bytes]
    ELSE [rec EXCEPT !.body.tail = "overwritten"]

ForwardedServerHello_rewritten(br, r, pong) ==
    OverwriteAt(r, SERVER_HELLO_RANDOM_START_INDEX, pong.q0)
\* server.rs 196, 218-222, 243: what buf holds when the ServerHello is
\* written to inbound: rewritten in the resumed branch only
ForwardedServerHello(br, r, pong) ==
    IF br = "resumed"
    THEN OverwriteAt(r, SERVER_HELLO_RANDOM_START_INDEX, pong.q0)
    ELSE r

\* server.rs 157-172, 174-187, 215-219: the camouflage ServerHello was read
ReadServerHello(c) ==
    /\ conn[c].pc = "read_sh"
    /\ \/ conn' = [conn EXCEPT ![c] = Returned(@, IoError)]
       \/ \E r \in CamouflageAnswers(conn[c].chsid) :
            LET k == [conn[c] EXCEPT !.buf = r, !.read_out = Append(@, r)]
            IN  conn' = [conn EXCEPT ![c] =
                  IF ~(r.ok /\ r.hs = "ServerHello")
                  THEN Returned([k EXCEPT !.outbound = "handed"],
                                ServerHelloInvalid(r, c, c))
                  ELSE LET pong == ServerPong(server_key, k.e, c)
                           br == ServerBranch(k.chsid, r)
                       IN  [k EXCEPT
                              !.pong = pong, !.branch = br,
                              !.buf = ForwardedServerHello(br, r, pong),
                              !.pc = IF br = "tls13" THEN "w13_sh"
                                     ELSE IF br = "resumed" THEN "wres_sh"
                                     ELSE "wfull_sh"]]
    /\ UNCHANGED <<now, env, nextEph, captured, clientSent, replay_filter,
                   rf_lock, everInserted, w, cli>>

\* server.rs 198, 257: gen_range(108..908), its ends
PongLens_inclusive == {108, 908}
PongLens == {108, 907}

\* what the bytes [from, to) of a buffer hold that was set_len to `to`
\* after holding old_len bytes, when nothing was written there since
Unwritten(old_len, from, to) ==
    IF from >= to THEN "none"
    ELSE IF old_len >= to THEN "stale"
    ELSE IF old_len <= from THEN "uninit"
    ELSE "stale_then_uninit"

\* server.rs 204, 263: the end of the slice handed to fill()
PongFillEnd(len) == len - 48

\* server.rs 198-204, 257-263: the application_data record that carries the
\* pong, built in buf: set_len, header, pong, fill(buf[5 + 48..len - 48]);
\* the bytes from there to the end keep what buf held, or were never written
PongRecord(buf, pong, len) ==
    [BuiltRecord(RecordHeader(APPLICATION_DATA, len),
                 TLS_RECORD_HEADER_LENGTH + len)
        EXCEPT !.body = [b0 |-> pong.q0, b1 |-> pong.q1, f16 |-> {},
                         fill |-> <<TLS_RECORD_HEADER_LENGTH + 48,
                                    PongFillEnd(len)>>,
                         tail |-> Unwritten(buf.nbytes, PongFillEnd(len),
                                            TLS_RECORD_HEADER_LENGTH + len)]]

\* client.rs 241-248: the dummy record, its whole body filled at random
DummyRecord(len) ==
    [BuiltRecord(RecordHeader(APPLICATION_DATA, len),
                 TLS_RECORD_HEADER_LENGTH + len)
        EXCEPT !.body.fill = <<TLS_RECORD_HEADER_LENGTH,
                               TLS_RECORD_HEADER_LENGTH + len>>,
               !.body.tail = Unwritten(0, TLS_RECORD_HEADER_LENGTH + len,
                                       TLS_RECORD_HEADER_LENGTH + len)]

DropOutbound_leaked(k) == k
\* server.rs 271-272: mem::drop(outbound)
DropOutbound(k) == [k EXCEPT !.outbound = "closed"]

IntoTransport_twice(k) ==
    [k EXCEPT !.transport = @ + 2, !.g_tx_out = k.outbound,
              !.g_tx_wrote = Len(k.sent_in)]
\* server.rs 287-289: responder.into_transport_mode(); g_tx_out, g_tx_wrote:
\* the state of outbound and the records written to inbound at that moment
IntoTransport(k) ==
    [k EXCEPT !.transport = @ + 1, !.g_tx_out = k.outbound,
              !.g_tx_wrote = Len(k.sent_in)]

\* server.rs 271-291: drop outbound, into_transport_mode, Ok
Established(k) ==
    [IntoTransport(DropOutbound(k)) EXCEPT
        !.pc = "returned",
        !.ret = [NoRet EXCEPT !.variant = "Ok", !.io = 0,
                              !.early_data = k.early_data]]

\* inbound.write_all(&buf) completed: k with buf appended to what was sent
WroteInbound(k) == [k EXCEPT !.sent_in = Append(@, k.buf)]

\* server.rs 196-204: the ServerHello was written; the pong record is built
WriteServerHello13(c) ==
    /\ conn[c].pc = "w13_sh"
    /\ \/ conn' = [conn EXCEPT ![c] = Returned(@, IoError)]
       \/ \E len \in PongLens :
            conn' = [conn EXCEPT ![c] =
                       [WroteInbound(@) EXCEPT
                          !.buf = PongRecord(conn[c].buf, conn[c].pong, len),
                          !.pc = "w13_pong"]]
    /\ UNCHANGED <<now, env, nextEph, captured, clientSent, replay_filter,
                   rf_lock, everInserted, w, cli>>

\* server.rs 205, 271-291: the pong record was written
WritePong13(c) ==
    /\ conn[c].pc = "w13_pong"
    /\ \E io_ok \in BOOLEAN :
         conn' = [conn EXCEPT ![c] =
                    IF io_ok THEN Established(WroteInbound(@))
                    ELSE Returned(@, IoError)]
    /\ UNCHANGED <<now, env, nextEph, captured, clientSent, replay_filter,
                   rf_lock, everInserted, w, cli>>

\* records a peer may send where the handshake reads one more record
PeerRecords ==
    {TlsRec(t, TRUE, "none", FALSE, {}, NoSid, bl) :
        t \in {CHANGE_CIPHER_SPEC, HANDSHAKE, APPLICATION_DATA}, bl \in {1, 40}}
    \cup {TlsRec(HANDSHAKE, FALSE, "none", FALSE, {}, NoSid, 40)}

\* the outcome of `read_tls_message(..).await?.expect("TODO")`: an I/O error
\* returns IoError, a record the framing rejects panics
ReadExpect(k, r, eof) ==
    IF eof THEN Returned(k, IoError)
    ELSE IF ~r.ok THEN Returned([k EXCEPT !.buf = r], Panic)
    ELSE [k EXCEPT !.buf = r]

(***************************************************************************)
(* TLS 1.2, session resumed: server.rs 215-238.                            *)
(***************************************************************************)
\* server.rs 222-224: the rewritten ServerHello was written
WriteServerHelloResumed(c) ==
    /\ conn[c].pc = "wres_sh"
    /\ \E io_ok \in BOOLEAN :
         conn' = [conn EXCEPT ![c] =
                    IF io_ok THEN [WroteInbound(@) EXCEPT !.pc = "rres_ccs"]
                    ELSE Returned(@, IoError)]
    /\ UNCHANGED <<now, env, nextEph, captured, clientSent, replay_filter,
                   rf_lock, everInserted, w, cli>>

\* server.rs 224-227: the record after the ServerHello was read from outbound
ReadChangeCipherSpecResumed(c) ==
    /\ conn[c].pc = "rres_ccs"
    /\ \/ conn' = [conn EXCEPT ![c] = ReadExpect(@, NoRec, TRUE)]
       \/ \E r \in PeerRecords :
            conn' = [conn EXCEPT ![c] =
                       LET k == ReadExpect([@ EXCEPT !.read_out = Append(@, r)],
                                           r, FALSE)
                       IN  IF k.pc = "returned" THEN k
                           ELSE [k EXCEPT !.pc = "wres_ccs"]]
    /\ UNCHANGED <<now, env, nextEph, captured, clientSent, replay_filter,
                   rf_lock, everInserted, w, cli>>

\* server.rs 227-228: it was written to inbound
WriteChangeCipherSpecResumed(c) ==
    /\ conn[c].pc = "wres_ccs"
    /\ \E io_ok \in BOOLEAN :
         conn' = [conn EXCEPT ![c] =
                    IF io_ok THEN [WroteInbound(@) EXCEPT !.pc = "rres_fin"]
                    ELSE Returned(@, IoError)]
    /\ UNCHANGED <<now, env, nextEph, captured, clientSent, replay_filter,
                   rf_lock, everInserted, w, cli>>

\* server.rs 228-233: the next record was read; its first 16 body bytes
\* become pong[32..48] (a slice of a shorter buffer is out of range)
ReadFinishedResumed(c) ==
    /\ conn[c].pc = "rres_fin"
    /\ \/ conn' = [conn EXCEPT ![c] = ReadExpect(@, NoRec, TRUE)]
       \/ \E r \in PeerRecords :
            conn' = [conn EXCEPT ![c] =
                       LET k == ReadExpect([@ EXCEPT !.read_out = Append(@, r)],
                                           r, FALSE)
                       IN  IF k.pc = "returned" THEN k
                           ELSE IF TLS_RECORD_HEADER_LENGTH + r.blen
                                     < TLS_RECORD_HEADER_LENGTH + 16
                           THEN Returned(k, Panic)
                           ELSE [k EXCEPT !.buf.body.f16 = k.pong.q1,
                                          !.pc = "wres_fin"]]
    /\ UNCHANGED <<now, env, nextEph, captured, clientSent, replay_filter,
                   rf_lock, everInserted, w, cli>>

\* server.rs 233, 271-291: the rewritten Finished was written
WriteFinishedResumed(c) ==
    /\ conn[c].pc = "wres_fin"
    /\ \E io_ok \in BOOLEAN :
         conn' = [conn EXCEPT ![c] =
                    IF io_ok THEN Established(WroteInbound(@))
                    ELSE Returned(@, IoError)]
    /\ UNCHANGED <<now, env, nextEph, captured, clientSent, replay_filter,
                   rf_lock, everInserted, w, cli>>

(***************************************************************************)
(* TLS 1.2, full handshake: server.rs 239-267, and the relay 326-386.      *)
(***************************************************************************)
\* server.rs 243-245: the ServerHello was written; both copy directions start
WriteServerHelloFull(c) ==
    /\ conn[c].pc = "wfull_sh"
    /\ \E io_ok \in BOOLEAN :
         conn' = [conn EXCEPT ![c] =
                    IF io_ok
                    THEN [WroteInbound(@) EXCEPT
                            !.pc = "relay",
                            !.rin = [NoDir EXCEPT !.st = "run"],
                            !.rout = [NoDir EXCEPT !.st = "run"]]
                    ELSE Returned(@, IoError)]
    /\ UNCHANGED <<now, env, nextEph, captured, clientSent, replay_filter,
                   rf_lock, everInserted, w, cli>>

\* the record types a relay direction may meet
RelayTypes == {HANDSHAKE, CHANGE_CIPHER_SPEC, APPLICATION_DATA}

CopyCheck_any_type_is_handshake(has_seen, t) ==
    IF t = CHANGE_CIPHER_SPEC /\ ~has_seen
    THEN [st |-> "run", has_seen |-> TRUE]
    ELSE IF has_seen THEN [st |-> "ok", has_seen |-> has_seen]
    ELSE [st |-> "run", has_seen |-> has_seen]
\* server.rs 353-369: the check of the header type after a record was copied
CopyCheck(has_seen, t) ==
    IF t # HANDSHAKE /\ t # CHANGE_CIPHER_SPEC
    THEN [st |-> "invalid", has_seen |-> has_seen]
    ELSE IF t # HANDSHAKE /\ ~has_seen
    THEN [st |-> "run", has_seen |-> TRUE]
    ELSE IF has_seen THEN [st |-> "ok", has_seen |-> has_seen]
    ELSE [st |-> "run", has_seen |-> has_seen]

\* the records a relay direction may meet: one of every type, two that fit
\* the data buffer and one longer than it is at first
RelayRecords ==
    {[ctype |-> HANDSHAKE, blen |-> 40],
     [ctype |-> CHANGE_CIPHER_SPEC, blen |-> 1],
     [ctype |-> APPLICATION_DATA, blen |-> DataBufLen + 1]}

CopySlice_whole_buffer(data_size, buf_len) == <<0, buf_len>>
\* server.rs 350-351: the slice of data_buf that is read into and written
CopySlice(data_size, buf_len) == <<0, data_size>>

\* server.rs 338-369: one turn of the loop on the record r at the head of
\* the read side: 5 header bytes are read and written, data_buf grows to
\* the length they announce if it is shorter, that many bytes are read into
\* it and written from it, and the header type is checked
CopyTurn(dir, r) ==
    LET header_buf == RecordHeader(r.ctype, r.blen)
        data_size == HeaderLength(header_buf)
        buf_len == IF data_size > dir.data_buf THEN data_size
                   ELSE dir.data_buf
        slice == CopySlice(data_size, buf_len)
        chk == CopyCheck(dir.has_seen_change_cipher_spec, header_buf[1])
    IN  [st |-> chk.st, has_seen_change_cipher_spec |-> chk.has_seen,
         last |-> header_buf[1], n |-> dir.n + 1,
         seen_ccs_before |-> dir.has_seen_change_cipher_spec,
         data_buf |-> buf_len,
         taken |-> dir.taken + TLS_RECORD_HEADER_LENGTH + data_size,
         put |-> dir.put + TLS_RECORD_HEADER_LENGTH + (slice[2] - slice[1]),
         read |-> r,
         wrote |-> [hdr |-> header_buf, body |-> slice]]

\* copy_until_tls12_handshake_finished(rin, wout): inbound to outbound
CopyInbound(c) ==
    /\ conn[c].pc = "relay" /\ conn[c].rin.st = "run"
    /\ \/ conn' = [conn EXCEPT ![c].rin.st = "io"]
       \/ /\ conn[c].rin.n < MaxRelayRecords
          /\ \E r \in RelayRecords :
               conn' = [conn EXCEPT ![c].rin = CopyTurn(@, r)]
    /\ UNCHANGED <<now, env, nextEph, captured, clientSent, replay_filter,
                   rf_lock, everInserted, w, cli>>

\* copy_until_tls12_handshake_finished(rout, win): outbound to inbound
CopyOutbound(c) ==
    /\ conn[c].pc = "relay" /\ conn[c].rout.st = "run"
    /\ \/ conn' = [conn EXCEPT ![c].rout.st = "io"]
       \/ /\ conn[c].rout.n < MaxRelayRecords
          /\ \E r \in RelayRecords :
               conn' = [conn EXCEPT ![c].rout = CopyTurn(@, r)]
    /\ UNCHANGED <<now, env, nextEph, captured, clientSent, replay_filter,
                   rf_lock, everInserted, w, cli>>

\* server.rs 383-384: the error `a?` returns comes before that of `b?`
RelayError(a, b) ==
    IF a # "ok" THEN [from |-> "inbound", kind |-> a]
    ELSE [from |-> "outbound", kind |-> b]

RelayResult_first_only(a, b) == a = "ok"
\* server.rs 383-385: a?; b?; Ok(())
RelayResult(a, b) == a = "ok" /\ b = "ok"

\* server.rs 379-385, 245-252: tokio::join! of both directions returned
RelayJoined(c) ==
    /\ conn[c].pc = "relay"
    /\ conn[c].rin.st # "run" /\ conn[c].rout.st # "run"
    /\ conn' = [conn EXCEPT ![c] =
                  IF RelayResult(conn[c].rin.st, conn[c].rout.st)
                  THEN [@ EXCEPT !.pc = "read_dummy"]
                  ELSE Returned(@, [IoError EXCEPT !.err =
                                      RelayError(conn[c].rin.st,
                                                 conn[c].rout.st)])]
    /\ UNCHANGED <<now, env, nextEph, captured, clientSent, replay_filter,
                   rf_lock, everInserted, w, cli>>

\* server.rs 252-263: the client's dummy was read; the pong record is built
ReadDummy(c) ==
    /\ conn[c].pc = "read_dummy"
    /\ \/ conn' = [conn EXCEPT ![c] = ReadExpect(@, NoRec, TRUE)]
       \/ \E r \in PeerRecords \cup {DummyRecord(l) : l \in PongLens},
             len \in PongLens :
            conn' = [conn EXCEPT ![c] =
                       LET k == ReadExpect(@, r, FALSE)
                       IN  IF k.pc = "returned" THEN k
                           ELSE [k EXCEPT !.buf = PongRecord(r, k.pong, len),
                                          !.pc = "wfull_pong"]]
    /\ UNCHANGED <<now, env, nextEph, captured, clientSent, replay_filter,
                   rf_lock, everInserted, w, cli>>

\* server.rs 265, 271-291: the pong record was written
WritePongFull(c) ==
    /\ conn[c].pc = "wfull_pong"
    /\ \E io_ok \in BOOLEAN :
         conn' = [conn EXCEPT ![c] =
                    IF io_ok THEN Established(WroteInbound(@))
                    ELSE Returned(@, IoError)]
    /\ UNCHANGED <<now, env, nextEph, captured, clientSent, replay_filter,
                   rf_lock, everInserted, w, cli>>

\* the positions at which accept_with_early_data waits in an await
AwaitPoints ==
    {"connect", "fwd_ch", "read_sh", "w13_sh", "w13_pong", "wres_sh",
     "rres_ccs", "wres_ccs", "rres_fin", "wres_fin", "wfull_sh", "relay",
     "read_dummy", "wfull_pong"}

\* the caller drops the future of a pending accept (a timeout around it)
Cancel(c) ==
    /\ conn[c].pc \in AwaitPoints
    /\ conn' = [conn EXCEPT ![c] = IdleConn]
    /\ UNCHANGED <<now, env, nextEph, captured, clientSent, replay_filter,
                   rf_lock, everInserted, w, cli>>

\* the caller is done with what accept returned; the slot serves the next
Close(c) ==
    /\ conn[c].pc = "returned"
    /\ conn' = [conn EXCEPT ![c] = IdleConn]
    /\ UNCHANGED <<now, env, nextEph, captured, clientSent, replay_filter,
                   rf_lock, everInserted, w, cli>>

\* the wall clock moves on by one period
Tick ==
    /\ env.ticks > 0
    /\ now' = now + period
    /\ env' = [env EXCEPT !.ticks = @ - 1]
    /\ UNCHANGED <<nextEph, captured, clientSent, replay_filter, rf_lock,
                   conn, everInserted, w, cli>>

(***************************************************************************)
(* Client::connect_with_early_data, tunnel/src/client.rs 105-288, and      *)
(* tls12_handshake, 291-382.  One action per await, as for the server; the *)
(* peer is whatever answers on the stream.                                 *)
(***************************************************************************)
\* snow read_message on the initiator (<- e, ee): the tag verifies only for
\* a pong made under the same psk for this client's ephemeral
NoiseReadPong(key, e, pong) ==
    \E se \in Conns :
        /\ pong.q0 = {SrvEphAtom(se)}
        /\ pong.q1 = {PongTagAtom(key, {EphAtom(e)}, se)}

\* the call returned res; deviation: what the peer did wrong, if anything
ClientReturned(k, res, deviation) ==
    [k EXCEPT !.pc = "returned", !.res = res, !.deviation = deviation]

\* client.rs 283-285: initiator.into_transport_mode()
ClientIntoTransport(k) == [k EXCEPT !.transport = @ + 1]

\* client.rs 280-287: the Noise read of the pong, then transport mode
ClientNoiseRead(k) ==
    IF NoiseReadPong(k.key, k.e, k.pong)
    THEN ClientReturned(ClientIntoTransport(k), "Ok", "none")
    ELSE ClientReturned(k, "InvalidData", "noise_read")

\* client.rs 110-155: the ping is built and the ClientHello written
ClientStart ==
    /\ cli.pc = "idle"
    /\ nextEph <= env.fresh
    /\ \E ed \in env.eds, io_ok \in BOOLEAN :
         LET ping == ClientPing(server_key, nextEph, ed, now + env.drift)
             h == ClientHelloRec(ping)
             k == [IdleClient EXCEPT !.key = server_key, !.early_data = ed,
                                     !.e = nextEph, !.sid = h.sid, !.buf = h]
         IN  cli' = IF io_ok
                    THEN [k EXCEPT !.sent = <<h>>, !.pc = "read_sh"]
                    ELSE ClientReturned(k, "Io", "none")
    /\ nextEph' = nextEph + 1
    /\ UNCHANGED <<now, env, captured, clientSent, replay_filter, rf_lock,
                   conn, everInserted, w>>

\* totp sign_current::<16>(data): the signature of data at the step of t
SignCurrent(key, t, data) == {Atom("H", key, data, TotpStep(t))}

\* snowy-tunnel client.rs 62-72: the older client's ClientHello; psk_e is
\* ephemeral(32) || tag(16) of the empty payload; random = psk_e[0..32] as
\* it is, session_id = psk_e[32..48] || sign_current::<16>(psk_e[0..32])
OldClientHelloRec(key, e, t) ==
    LET psk_e == NoiseWritePing(key, e, 0 - 2)
    IN  TlsRec(HANDSHAKE, TRUE, "ClientHello", TRUE, psk_e.p0,
               [len |-> 16 + 16, lo |-> psk_e.p2,
                hi |-> SignCurrent(key, t, psk_e.p0)], 200)

\* snowy-tunnel client.rs 62-122: the older client's connect up to the
\* write of its ClientHello
OldClientStart ==
    /\ cli.pc = "idle"
    /\ nextEph <= env.fresh
    /\ \E io_ok \in BOOLEAN :
         LET h == OldClientHelloRec(server_key, nextEph, now + env.drift)
             k == [IdleClient EXCEPT !.key = server_key, !.e = nextEph,
                                     !.sid = h.sid, !.buf = h, !.older = TRUE]
         IN  cli' = IF io_ok
                    THEN [k EXCEPT !.sent = <<h>>, !.pc = "old_read_sh"]
                    ELSE ClientReturned(k, "Io", "none")
    /\ nextEph' = nextEph + 1
    /\ UNCHANGED <<now, env, captured, clientSent, replay_filter, rf_lock,
                   conn, everInserted, w>>

\* what the peer may answer the ClientHello with
ClientPeerHellos(k) ==
    {[ServerHelloRec(v, sid) EXCEPT !.random = rnd] :
        v \in BOOLEAN, sid \in {k.sid, OtherSid},
        rnd \in {{JunkAtom(2)},
                 ServerPong(k.key, {EphAtom(k.e)}, 1).q0}}
    \cup {TlsRec(HANDSHAKE, FALSE, "none", FALSE, {}, NoSid, 90),
          TlsRec(APPLICATION_DATA, TRUE, "none", FALSE, {}, NoSid, 2)}

ClientBranch_no_resumption(sid, shp) ==
    IF shp.tls13 THEN "tls13" ELSE "full"
\* client.rs 171, 210: the branch the client takes on a ServerHello
ClientBranch(sid, shp) ==
    IF shp.tls13 THEN "tls13"
    ELSE IF SameSessionId(shp.sid, sid) THEN "resumed" ELSE "full"

\* client.rs 158-168, 171, 210-213: the ServerHello was read
ClientReadServerHello ==
    /\ cli.pc = "read_sh"
    /\ \/ cli' = ClientReturned(cli, "Io", "none")
       \/ \E r \in ClientPeerHellos(cli) :
            LET k == [cli EXCEPT !.buf = r, !.rd = @ + 1]
                br == ClientBranch(cli.sid, r)
            IN  cli' =
                  IF ~(r.ok /\ r.hs = "ServerHello")
                  THEN ClientReturned(k, "InvalidData", "not_server_hello")
                  ELSE [k EXCEPT
                          !.branch = br,
                          !.pong.q0 = IF br = "resumed"
                                      THEN Xor(r.random, PointMask(k.key))
                                      ELSE @,
                          !.pc = IF br = "tls13" THEN "c13_pong"
                                 ELSE IF br = "resumed" THEN "cres_ccs"
                                 ELSE "tls12"]
    /\ UNCHANGED srvVars

\* the records the peer may send where the client expects the pong record
ClientPeerPongs(k) ==
    {PongRecord(b, q, len) :
        b \in {ServerHelloRec(FALSE, OtherSid)}
                 \cup {DummyRecord(l) : l \in PongLens},
        len \in PongLens,
        q \in {ServerPong(k.key, {EphAtom(k.e)}, 1),
               [q0 |-> {JunkAtom(5)}, q1 |-> {JunkAtom(6)}]}}
    \cup {TlsRec(APPLICATION_DATA, TRUE, "none", FALSE, {}, NoSid, 40),
          TlsRec(APPLICATION_DATA, FALSE, "none", FALSE, {}, NoSid, 108)}

\* client.rs 190-203, 254-268: the length check and the pong taken from the
\* record, bytes 0..32 unmasked
ClientTakePong(k, r) ==
    IF TLS_RECORD_HEADER_LENGTH + r.blen < 5 + 48
    THEN ClientReturned(k, "InvalidData", "short_pong")
    ELSE ClientNoiseRead(
           [k EXCEPT !.pong = [q0 |-> Xor(r.body.b0, PointMask(k.key)),
                               q1 |-> r.body.b1]])

\* client.rs 185-203, 280-287: TLS 1.3, the pong record was read
ClientReadPong13 ==
    /\ cli.pc = "c13_pong"
    /\ \/ cli' = ClientReturned(cli, "Io", "none")
       \/ \E r \in ClientPeerPongs(cli) :
            LET k == [cli EXCEPT !.buf = r, !.rd = @ + 1]
            IN  cli' = IF ~r.ok
                       THEN ClientReturned(k, "InvalidData", "malformed_pong")
                       ELSE ClientTakePong(k, r)
    /\ UNCHANGED srvVars

\* client.rs 215-217: resumed, the record after the ServerHello was read
ClientReadChangeCipherSpec ==
    /\ cli.pc = "cres_ccs"
    /\ \/ cli' = ClientReturned(cli, "Io", "none")
       \/ \E r \in PeerRecords :
            LET k == [cli EXCEPT !.buf = r, !.rd = @ + 1]
            IN  cli' = IF ~r.ok
                       THEN ClientReturned(k, "panic", "malformed_ccs")
                       ELSE [k EXCEPT !.pc = "cres_fin",
                                      !.deviation =
                                         IF r.ctype # CHANGE_CIPHER_SPEC
                                         THEN "mistyped_ccs" ELSE @]
    /\ UNCHANGED srvVars

\* the records the peer may send where the client expects Finished
ClientPeerFinished(k) ==
    {[TlsRec(HANDSHAKE, TRUE, "none", FALSE, {}, NoSid, 40)
         EXCEPT !.body.f16 = f] :
        f \in {ServerPong(k.key, {EphAtom(k.e)}, 1).q1, {JunkAtom(6)}}}
    \cup {TlsRec(HANDSHAKE, TRUE, "none", FALSE, {}, NoSid, 1),
          TlsRec(HANDSHAKE, FALSE, "none", FALSE, {}, NoSid, 40)}

\* client.rs 218-234, 280-287: resumed, the next record was read; its first
\* 16 body bytes become pong[32..48] (pong.len() is 48, never below 16)
ClientReadFinished ==
    /\ cli.pc = "cres_fin"
    /\ \/ cli' = ClientReturned(cli, "Io", "none")
       \/ \E r \in ClientPeerFinished(cli) :
            LET k == [cli EXCEPT !.buf = r, !.rd = @ + 1]
                dev == IF cli.deviation # "none" THEN cli.deviation
                       ELSE "short_finished"
            IN  cli' = IF ~r.ok
                       THEN ClientReturned(k, "panic", "malformed_finished")
                       ELSE IF TLS_RECORD_HEADER_LENGTH + r.blen
                                 < TLS_RECORD_HEADER_LENGTH + 16
                       THEN ClientReturned(k, "panic", dev)
                       ELSE LET d == ClientNoiseRead(
                                       [k EXCEPT !.pong.q1 = r.body.f16])
                            IN  IF d.res = "Ok" THEN d
                                ELSE [d EXCEPT !.deviation =
                                        IF cli.deviation # "none"
                                        THEN cli.deviation ELSE @]
    /\ UNCHANGED srvVars

\* client.rs 321-372: one record read in tls12_handshake; len: the length
\* its header announces, tls_ok: whether process_new_packets accepts it
Tls12Read(kk, t, len, tls_ok, stop_after_server_ccs) ==
    LET k == [kk EXCEPT !.rlen = len]
    IN
    IF TLS_RECORD_HEADER_LENGTH + len
         > TLS_RECORD_HEADER_LENGTH + MAXIMUM_CIPHERTEXT_LENGTH
    THEN ClientReturned(k, "panic", "long_record")
    ELSE IF ~tls_ok
    THEN ClientReturned(k, "InvalidData", "tls_state")
    ELSE IF t = CHANGE_CIPHER_SPEC
    THEN [k EXCEPT !.seen_ccs = TRUE, !.last = t, !.rd = @ + 1,
                   !.pc = IF stop_after_server_ccs THEN "write_dummy" ELSE @]
    ELSE IF k.seen_ccs
    THEN [k EXCEPT !.pc = "write_dummy", !.last = t, !.rd = @ + 1]
    ELSE [k EXCEPT !.last = t, !.rd = @ + 1]

\* the flight of a full TLS 1.2 handshake: ClientKeyExchange,
\* ChangeCipherSpec, Finished
ClientFlight ==
    <<TlsRec(HANDSHAKE, TRUE, "none", FALSE, {}, NoSid, 40),
      TlsRec(CHANGE_CIPHER_SPEC, TRUE, "none", FALSE, {}, NoSid, 1),
      TlsRec(HANDSHAKE, TRUE, "none", FALSE, {}, NoSid, 40)>>

\* client.rs 306-319: what one write_tls hands to the stream, one record or
\* several ("typically, multiple messages are written by a single call")
Tls12Flights ==
    {<<TlsRec(HANDSHAKE, TRUE, "none", FALSE, {}, NoSid, 40)>>, ClientFlight}

\* lengths a record header may declare: a usual one, the largest the
\* buffer of tls12_handshake holds, the next, and the largest of a u16
HeaderLengths ==
    {40, MAXIMUM_CIPHERTEXT_LENGTH, MAXIMUM_CIPHERTEXT_LENGTH + 1,
     HeaderLength(<<HANDSHAKE, 3, 3, 255, 255>>)}

Tls12Arm_read_first(wants_read, wants_write) ==
    IF wants_read THEN "read" ELSE IF wants_write THEN "write" ELSE "break"
\* client.rs 304-305, 321, 373: the match on (wants_read, wants_write)
Tls12Arm(wants_read, wants_write) ==
    IF wants_write THEN "write" ELSE IF wants_read THEN "read" ELSE "break"

\* client.rs 237-238, 303-375: one turn of the loop of tls12_handshake, on
\* what rustls wants next
ClientTls12Turn ==
    /\ cli.pc = "tls12"
    /\ \E wants_read, wants_write \in BOOLEAN :
         LET arm == Tls12Arm(wants_read, wants_write)
             k == [cli EXCEPT !.turn = [wants_read |-> wants_read,
                                        wants_write |-> wants_write,
                                        arm |-> arm]]
         IN  \/ /\ arm = "write" /\ cli.n < MaxClientTurns
                /\ \E io_ok \in BOOLEAN, flight \in Tls12Flights :
                     cli' = IF io_ok
                            THEN [k EXCEPT !.n = @ + 1, !.sent = @ \o flight]
                            ELSE ClientReturned(k, "Io", "none")
             \/ /\ arm = "read"
                /\ cli' = ClientReturned(k, "Io", "none")
             \/ /\ arm = "read" /\ cli.n < MaxClientTurns
                /\ \E t \in RelayTypes, tls_ok \in BOOLEAN,
                      len \in HeaderLengths :
                     cli' = Tls12Read([k EXCEPT !.n = @ + 1], t, len, tls_ok,
                                      FALSE)
             \/ /\ arm = "break"
                /\ cli' = [k EXCEPT !.pc = "write_dummy"]
    /\ UNCHANGED srvVars

ClientWriteDummy_skipped ==
    /\ cli.pc = "write_dummy"
    /\ cli' = [cli EXCEPT !.pc = "cfull_pong"]
    /\ UNCHANGED srvVars
\* client.rs 241-250: the dummy record was written
ClientWriteDummy ==
    /\ cli.pc = "write_dummy"
    /\ \E io_ok \in BOOLEAN, len \in PongLens :
         cli' = IF io_ok
                THEN [cli EXCEPT
                        !.buf = DummyRecord(len),
                        !.sent = Append(@, DummyRecord(len)),
                        !.pc = "cfull_pong"]
                ELSE ClientReturned(cli, "Io", "none")
    /\ UNCHANGED srvVars

\* client.rs 251-268, 280-287: full handshake, the pong record was read
ClientReadPongFull ==
    /\ cli.pc = "cfull_pong"
    /\ \/ cli' = ClientReturned(cli, "Io", "none")
       \/ \E r \in ClientPeerPongs(cli) :
            LET k == [cli EXCEPT !.buf = r, !.rd = @ + 1]
            IN  cli' = IF ~r.ok
                       THEN ClientReturned(k, "panic", "malformed_pong")
                       ELSE ClientTakePong(k, r)
    /\ UNCHANGED srvVars

\* the state after Server::new and Client::new, at wall clock t
InitAt(e, t) ==
    /\ now = t
    /\ cli = IdleClient
    /\ env = e
    /\ nextEph = 1
    /\ captured = {}
    /\ clientSent = <<>>
    /\ replay_filter = <<>>
    /\ rf_lock = 0
    /\ conn = [c \in Conns |-> IdleConn]
    /\ everInserted = {}
    /\ w = NoWatch

InitWith(e) == InitAt(e, StartClock)

\* the replay phase of accept; the handshake after the replay check stays
\* pending until the caller drops it
ReplayNext ==
    \E c \in Conns :
        \/ AcceptFresh(c) \/ AcceptCaptured(c)
        \/ RfLock(c) \/ RfGet(c) \/ RfPut(c)
        \/ Cancel(c) \/ Close(c)

\* Spec: the replay filter under one connection after the other, from
\* several addresses
Init ==
    InitWith([slots |-> {1}, addrs |-> Addrs, fresh |-> MaxEph,
              eds |-> {0}, ticks |-> 0, tamper |-> {FALSE}, drift |-> 0])

Next == ReplayNext

Spec == Init /\ [][Next]_vars

\* ConcSpec: the replay filter under concurrent connections
ConcInit ==
    InitWith([slots |-> Conns, addrs |-> {1}, fresh |-> ConcEph,
              eds |-> {0}, ticks |-> 0, tamper |-> {FALSE}, drift |-> 0])

ConcSpec == ConcInit /\ [][ReplayNext]_vars

\* HsSpec: one connection at a time, through the whole handshake
HsInit ==
    \E d \in {0 - 2 * period, 0, period} :
        InitWith([slots |-> {1}, addrs |-> {1}, fresh |-> 1,
                  eds |-> EarlyDatas, ticks |-> MaxTicks, tamper |-> BOOLEAN,
                  drift |-> d])

HsNext ==
    \/ \E c \in Conns :
        \/ AcceptFresh(c) \/ AcceptWrongKey(c) \/ AcceptCaptured(c)
        \/ AcceptOther(c)
        \/ RfLock(c) \/ RfGet(c) \/ RfPut(c)
        \/ ConnectCamouflage(c) \/ ForwardClientHello(c)
        \/ ReadServerHello(c) \/ WriteServerHello13(c) \/ WritePong13(c)
        \/ WriteServerHelloResumed(c) \/ ReadChangeCipherSpecResumed(c)
        \/ WriteChangeCipherSpecResumed(c) \/ ReadFinishedResumed(c)
        \/ WriteFinishedResumed(c)
        \/ WriteServerHelloFull(c) \/ CopyInbound(c) \/ CopyOutbound(c)
        \/ RelayJoined(c) \/ ReadDummy(c) \/ WritePongFull(c)
        \/ Cancel(c) \/ Close(c)
    \/ Tick

HsSpec == HsInit /\ [][HsNext]_vars

\* ClientSpec: one client against an arbitrary peer
ClientInit ==
    InitWith([slots |-> {}, addrs |-> {1}, fresh |-> 1, eds |-> EarlyDatas,
              ticks |-> 0, tamper |-> {FALSE}, drift |-> 0])

ClientNext ==
    \/ ClientStart \/ ClientReadServerHello \/ ClientReadPong13
    \/ ClientReadChangeCipherSpec \/ ClientReadFinished
    \/ ClientTls12Turn \/ ClientWriteDummy \/ ClientReadPongFull

ClientSpec == ClientInit /\ [][ClientNext]_vars

\* EndpointSpec: one endpoint against an arbitrary peer, in each run either
\* the server (as in HsSpec) or the client (as in ClientSpec)
EndpointInit == HsInit \/ ClientInit

\* the client starts only where no server slot is served; its other steps
\* follow its start
EndpointNext ==
    \/ HsNext
    \/ env.slots = {} /\ ClientStart
    \/ ClientReadServerHello \/ ClientReadPong13
    \/ ClientReadChangeCipherSpec \/ ClientReadFinished
    \/ ClientTls12Turn \/ ClientWriteDummy \/ ClientReadPongFull

EndpointSpec == EndpointInit /\ [][EndpointNext]_vars

\* HelloSpec: the ClientHello of the current and of the older client, built
\* at several client clocks
HelloInit ==
    \E d \in {0 - period, 0 - 1, 0, 1, period}, ph \in {0, 1, 29, 30, 59} :
        InitAt([slots |-> {}, addrs |-> {1}, fresh |-> 1, eds |-> EarlyDatas,
                ticks |-> 0, tamper |-> {FALSE}, drift |-> d],
               StartClock + ph)

HelloNext == ClientStart \/ OldClientStart

HelloSpec == HelloInit /\ [][HelloNext]_vars

\* TotpSpec: one ClientHello made under a client clock that differs from the
\* server's by up to TotpSpan + 1 seconds, at several phases of the period
TotpInit ==
    \E d \in (0 - TotpSpan - 1)..(TotpSpan + 1), ph \in {0, 1, 30, 59} :
        InitAt([slots |-> {1}, addrs |-> {1}, fresh |-> 1, eds |-> {0},
                ticks |-> 0, tamper |-> {FALSE}, drift |-> d],
               StartClock + ph)

TotpNext ==
    \E c \in Conns :
        \/ AcceptFresh(c) \/ RfLock(c) \/ RfGet(c) \/ RfPut(c)

TotpSpec == TotpInit /\ [][TotpNext]_vars

(***************************************************************************)
(* LinkSpec: one client and the server joined by a stream, the server and  *)
(* a well-behaved camouflage TLS server joined by another.  Each step is a *)
(* step of the client or of the server, on what the other end has written  *)
(* so far; no stream fails.  The client reads the records the server wrote *)
(* to inbound (sent_in) and, during a full handshake, the records the      *)
(* outbound relay direction has copied; the server reads the records the   *)
(* client wrote (cli.sent).                                                 *)
(***************************************************************************)
\* no I/O operation of the step failed
NoIoError(c) ==
    /\ ~(conn'[c].ret.variant = "IoError" /\ conn'[c].ret.err = NoErr)
    /\ conn'[c].rin.st # "io" /\ conn'[c].rout.st # "io"
ClientNoIoError == cli'.res # "Io"

\* a well-behaved camouflage server: a ServerHello of either version that
\* resumes the session or not; in a resumed handshake ChangeCipherSpec and
\* Finished at once; in a full one its first flight, and ChangeCipherSpec
\* and Finished once the client's flight has reached it
CamouflageServerHellos(chsid) ==
    {ServerHelloRec(v, sid) : v \in BOOLEAN, sid \in {chsid, OtherSid}}
CamouflageResumed ==
    <<TlsRec(CHANGE_CIPHER_SPEC, TRUE, "none", FALSE, {}, NoSid, 1),
      TlsRec(HANDSHAKE, TRUE, "none", FALSE, {}, NoSid, 40)>>
CamouflageFull == <<HANDSHAKE, CHANGE_CIPHER_SPEC, HANDSHAKE>>

\* the bytes of a stream of records before its record k
RECURSIVE BytesBefore(_, _)
BytesBefore(stream, k) ==
    IF k <= 1 THEN 0
    ELSE BytesBefore(stream, k - 1) + stream[k - 1].nbytes

\* the record of the stream that starts at byte off, if one does
RecordAtOffset(stream, off) ==
    IF \E k \in 1..Len(stream) : BytesBefore(stream, k) = off
    THEN stream[CHOOSE k \in 1..Len(stream) : BytesBefore(stream, k) = off]
    ELSE NoRec

\* the next unread record on inbound: the server has consumed the
\* ClientHello (server.rs 94) and what the inbound direction of the relay
\* took
InboundHead ==
    IF cli.sent = <<>> THEN NoRec
    ELSE RecordAtOffset(cli.sent, cli.sent[1].nbytes + conn[1].rin.taken)

\* the server accepts the connection the client opened
LinkAccept ==
    /\ conn[1].pc = "idle" /\ Len(cli.sent) >= 1
    /\ \E clobber \in BOOLEAN :
         conn' = [conn EXCEPT ![1] =
                    OnFirstRecord(1, 1, cli.sent[1], FALSE, now, clobber)]
    /\ UNCHANGED <<now, env, nextEph, captured, clientSent, replay_filter,
                   rf_lock, everInserted, w, cli>>

LinkReadServerHello ==
    /\ ReadServerHello(1)
    /\ Len(conn'[1].read_out) = 1
    /\ conn'[1].read_out[1] \in CamouflageServerHellos(conn[1].chsid)
LinkReadChangeCipherSpecResumed ==
    /\ ReadChangeCipherSpecResumed(1)
    /\ Len(conn'[1].read_out) = 2
    /\ conn'[1].read_out[2] = CamouflageResumed[1]
LinkReadFinishedResumed ==
    /\ ReadFinishedResumed(1)
    /\ Len(conn'[1].read_out) = 3
    /\ conn'[1].read_out[3] = CamouflageResumed[2]

\* the inbound direction copies the next record of the client's flight
LinkCopyInbound ==
    /\ CopyInbound(1) /\ NoIoError(1)
    /\ InboundHead.ok
    /\ conn'[1].rin.read
         = [ctype |-> InboundHead.ctype, blen |-> InboundHead.blen]

\* the outbound direction copies the next record of the camouflage server
LinkCopyOutbound ==
    /\ CopyOutbound(1) /\ NoIoError(1)
    /\ conn[1].rout.n + 1 <= Len(CamouflageFull)
    /\ conn[1].rout.n + 1 > 1 => conn[1].rin.n >= Len(ClientFlight)
    /\ conn'[1].rout.read
         = LET t == CamouflageFull[conn[1].rout.n + 1]
           IN  [ctype |-> t,
                blen |-> IF t = CHANGE_CIPHER_SPEC
                         THEN CamouflageResumed[1].blen
                         ELSE CamouflageResumed[2].blen]

\* the server reads the dummy the client wrote after its flight
LinkReadDummy ==
    /\ ReadDummy(1) /\ NoIoError(1)
    /\ InboundHead.ok
    /\ \E len \in PongLens :
         conn'[1].buf = PongRecord(InboundHead, conn[1].pong, len)

\* the client reads record i of what the server wrote to inbound
LinkClientRead(i) ==
    /\ ClientNoIoError
    /\ Len(conn[1].sent_in) >= i
    /\ cli'.rd = cli.rd + 1
    /\ cli'.buf = conn[1].sent_in[i]


\* tls12_handshake reads the next record the outbound direction copied, as
\* long as rustls has nothing to write
LinkClientTls12Read ==
    /\ ClientTls12Turn
    /\ cli'.rd = cli.rd + 1 /\ cli'.res = "none"
    /\ cli'.rlen = CamouflageResumed[2].blen
    /\ conn[1].rout.n >= cli.rd
    /\ cli.rd > 1 => Len(cli.sent) > 1
    /\ cli'.last = CamouflageFull[cli.rd]

\* tls12_handshake writes the client's flight once the server's first flight
\* was read
LinkClientTls12Write ==
    /\ ClientTls12Turn /\ ClientNoIoError
    /\ cli.rd = 2 /\ Len(cli.sent) = 1
    /\ Len(cli'.sent) = 1 + Len(ClientFlight)


LinkInit ==
    \E d \in {0 - period, 0, period} :
        InitWith([slots |-> {1}, addrs |-> {1}, fresh |-> 1,
                  eds |-> EarlyDatas, ticks |-> 0, tamper |-> {FALSE},
                  drift |-> d])

\* the steps of accept_with_early_data; a write completes
LinkServerNext ==
    \/ LinkAccept \/ RfLock(1) \/ RfGet(1) \/ RfPut(1)
    \/ ConnectCamouflage(1) /\ NoIoError(1)
    \/ ForwardClientHello(1) /\ NoIoError(1)
    \/ LinkReadServerHello
    \/ WriteServerHello13(1) /\ NoIoError(1)
    \/ WritePong13(1) /\ NoIoError(1)
    \/ WriteServerHelloResumed(1) /\ NoIoError(1)
    \/ LinkReadChangeCipherSpecResumed
    \/ WriteChangeCipherSpecResumed(1) /\ NoIoError(1)
    \/ LinkReadFinishedResumed
    \/ WriteFinishedResumed(1) /\ NoIoError(1)
    \/ WriteServerHelloFull(1) /\ NoIoError(1)
    \/ LinkCopyInbound \/ LinkCopyOutbound \/ RelayJoined(1)
    \/ LinkReadDummy
    \/ WritePongFull(1) /\ NoIoError(1)

\* the steps of connect_with_early_data; the records the server wrote to
\* inbound are read in their order
LinkClientNext ==
    \/ ClientStart /\ ClientNoIoError
    \/ ClientReadServerHello /\ LinkClientRead(1)
    \/ ClientReadPong13 /\ LinkClientRead(2)
    \/ ClientReadChangeCipherSpec /\ LinkClientRead(2)
    \/ ClientReadFinished /\ LinkClientRead(3)
    \/ LinkClientTls12Read \/ LinkClientTls12Write
    \/ ClientWriteDummy /\ ClientNoIoError
    \/ ClientReadPongFull /\ LinkClientRead(2)

LinkNext == LinkServerNext \/ LinkClientNext

LinkSpec == LinkInit /\ [][LinkNext]_vars

\* the runtime runs a task that can take a step, and the streams deliver
\* what was written to them
LinkLiveSpec ==
    LinkSpec /\ WF_vars(LinkServerNext) /\ WF_vars(LinkClientNext)

(***************************************************************************)
(* Properties.                                                             *)
(***************************************************************************)
\* the honest client whose ClientHello, unmodified, is what connection c read
SenderOf(c) ==
    {i \in DOMAIN clientSent :
        conn[c].wire = ClientHelloRec(ClientPing(server_key, i, clientSent[i].ed,
                                                 clientSent[i].t))}

\* connection c got past the token loop (e is set at server.rs 136)
Authenticated(c) == conn[c].e # {}

\* C1, as stated: a ClientHello submitted again, with fewer than
\* replay_filter_size other distinct ephemerals inserted into the filter
\* since its previous submission, is rejected as a replay.
ReplayRejectedCountingInsertions ==
    \A c \in Conns :
        (conn[c].rchk # "none" /\ conn[c].g_w
            /\ conn[c].g_ins < replay_filter_size)
        => conn[c].rchk = "replay"

\* C1, amended: an ephemeral never inserted before passes the replay check;
\* one submitted again is rejected as a replay if fewer than
\* replay_filter_size other distinct ephemerals were presented to the
\* filter (inserted, or looked up and found) since its previous submission.
ReplayRejectedWithinRetention ==
    \A c \in Conns :
        conn[c].rchk # "none" =>
            /\ ~conn[c].g_prev => conn[c].rchk = "pass"
            /\ (conn[c].g_w /\ conn[c].g_pres < replay_filter_size)
                 => conn[c].rchk = "replay"

\* a replay is detected although other ephemerals went through the filter
\* since the first submission, as many as the capacity leaves room for
ReplayAtRetentionEdge ==
    \E c \in Conns :
        /\ conn[c].rchk = "replay" /\ conn[c].g_w
        /\ conn[c].g_pres = replay_filter_size - 1
        /\ conn[c].ret.variant = "ReplayDetected"

\* C2: of two connections served at the same time that authenticated the
\* same ephemeral, at most one passes the replay check, unless the entry of
\* the first was evicted from the filter by other insertions in between.
AtMostOnePassesReplayCheck ==
    \A c, d \in Conns :
        (c # d /\ conn[c].e # {} /\ conn[c].e = conn[d].e
             /\ conn[c].rchk = "pass" /\ conn[d].rchk = "pass")
        => (conn[c].g_evicted \/ conn[d].g_evicted)

\* one connection is between its lookup and its insertion while another
\* with the same ephemeral waits for the mutex
RacingReplay ==
    \E c, d \in Conns :
        /\ c # d /\ conn[c].e = conn[d].e
        /\ conn[c].pc = "rf_put" /\ conn[d].pc = "rf_lock"

\* C3, as stated: first_from of ReplayDetected is the address of the
\* connection that first inserted the nonce into the replay filter.
FirstFromIsFirstInserter ==
    \A c \in Conns :
        (conn[c].ret.variant = "ReplayDetected" /\ conn[c].g_w)
        => conn[c].ret.first_from = conn[c].g_first

\* C3, amended: the nonce of ReplayDetected is the unmasked ephemeral of the
\* presented ping, and first_from is the address of the connection that put
\* the entry now in the filter (the last to insert the nonce; a replay never
\* overwrites it).
FirstFromIsLastInserter ==
    \A c \in Conns :
        conn[c].ret.variant = "ReplayDetected" =>
            /\ conn[c].ret.nonce
                 = Xor(conn[c].wire.random, PointMask(server_key))
            /\ conn[c].g_w => conn[c].ret.first_from = conn[c].g_cur

\* a replay arrives from another address than the one that inserted the nonce
ReplayFromOtherAddress ==
    \E c \in Conns :
        /\ conn[c].ret.variant = "ReplayDetected" /\ conn[c].g_w
        /\ conn[c].peer # conn[c].g_cur

\* no token of the skew window, at the time connection c was accepted, makes
\* the Noise read of the ClientHello it read succeed
NoTokenVerifies(c) ==
    LET tokens == GenerateCurrentSkewed(server_key, conn[c].at, skew)
        ping == ServerPing(conn[c].wire, PointMask(server_key))
    IN  \A i \in DOMAIN tokens :
            ~NoiseReadPing(server_key,
                           [ping EXCEPT !.p2 = Xor(@, tokens[i])]).ok

\* C4: a ClientHello that no token of the window verifies ends in
\* Unauthenticated; Unauthenticated carries the ClientHello record as it was
\* read and the inbound connection.
UnauthenticatedReturnsClientHello ==
    \A c \in Conns :
        /\ (conn[c].pc # "idle" /\ conn[c].wire.ok
              /\ conn[c].wire.hs = "ClientHello" /\ NoTokenVerifies(c))
           => (conn[c].pc = "returned"
               /\ conn[c].ret.variant = "Unauthenticated")
        /\ conn[c].ret.variant = "Unauthenticated"
           => (conn[c].ret.buf = conn[c].wire /\ conn[c].ret.io = c
               /\ conn[c].wire.hs = "ClientHello")

\* a client holding another key was turned away
WrongKeyTurnedAway ==
    \E c \in Conns :
        /\ conn[c].ret.variant = "Unauthenticated"
        /\ \E ed \in EarlyDatas :
             conn[c].wire.sid.lo = {CtAtom(wrong_key, {EphAtom(0)}, ed)}
        /\ conn[c].ret.buf = conn[c].wire

\* C5: with period 60 and skew 2 and the same key on both sides, a ping is
\* authenticated if and only if the step of the client's clock is within 2
\* of the step of the server's clock; so a clock difference below 120 s
\* authenticates and one above 180 s ends in Unauthenticated.
TotpSkewWindow ==
    \A c \in Conns : \A i \in SenderOf(c) :
        LET tc == clientSent[i].t
            ts == conn[c].at
            d == TotpStep(tc) - TotpStep(ts)
            diff == IF tc >= ts THEN tc - ts ELSE ts - tc
        IN  /\ Authenticated(c) <=> (0 - 2 <= d /\ d <= 2)
            /\ diff < 120 => Authenticated(c)
            /\ diff > 180 =>
                 (conn[c].pc = "returned"
                  /\ conn[c].ret.variant = "Unauthenticated")

\* a ping is authenticated although the clocks differ by more than 120 s
AuthenticatedBeyondTwoPeriods ==
    \E c \in Conns : \E i \in SenderOf(c) :
        /\ Authenticated(c)
        /\ clientSent[i].t - conn[c].at > 120

\* C6: when accept succeeds on the unmodified ClientHello of a client that
\* holds the key, the early data it returns is the early data the client
\* passed to connect, whichever token of the window verified.
EarlyDataRoundTrip ==
    \A c \in Conns : \A i \in SenderOf(c) :
        (conn[c].pc = "returned" /\ conn[c].ret.variant = "Ok")
        => conn[c].ret.early_data = clientSent[i].ed

\* accept succeeded after tokens of the window had failed, and returned an
\* early data other than the initial value of the buffer
EarlyDataAfterSkewedToken ==
    \E c \in Conns : \E i \in SenderOf(c) :
        /\ conn[c].pc = "returned" /\ conn[c].ret.variant = "Ok"
        /\ TotpStep(clientSent[i].t) # TotpStep(conn[c].at)
        /\ conn[c].ret.early_data # 0

\* C7: a deviation of the peer ends connect_with_early_data with an error
\* of kind InvalidData, never with a panic.
ClientDeviationIsInvalidData ==
    (cli.pc = "returned" /\ cli.deviation # "none")
    => cli.res = "InvalidData"

\* C8: accept_with_early_data ends with Ok or with one of the five
\* AcceptError variants, never with a panic.
AcceptReturnsAnAcceptError ==
    \A c \in Conns :
        conn[c].pc = "returned"
        => conn[c].ret.variant \in {"Ok", "IoError", "ClientHelloInvalid",
                                    "Unauthenticated", "ReplayDetected",
                                    "ServerHelloInvalid"}

\* C9: a relay direction returns Ok only on a Handshake record read after a
\* ChangeCipherSpec record.
RelayStopsOnHandshakeAfterCcs ==
    \A c \in Conns :
        /\ conn[c].rin.st = "ok"
           => (conn[c].rin.last = HANDSHAKE /\ conn[c].rin.seen_ccs_before)
        /\ conn[c].rout.st = "ok"
           => (conn[c].rout.last = HANDSHAKE /\ conn[c].rout.seen_ccs_before)

\* the last record a direction copied is neither Handshake nor
\* ChangeCipherSpec
CopiedOtherType(dir) ==
    dir.n > 0 /\ dir.last # HANDSHAKE /\ dir.last # CHANGE_CIPHER_SPEC

\* C10: a relay direction that copied a record of a type other than
\* Handshake and ChangeCipherSpec, before or after the ChangeCipherSpec,
\* returned InvalidData; the relay then does not succeed: accept goes on to
\* the dummy record only when both directions returned Ok, and otherwise
\* returns IoError.
RelayRejectsOtherTypes ==
    \A c \in Conns :
        /\ CopiedOtherType(conn[c].rin) => conn[c].rin.st = "invalid"
        /\ CopiedOtherType(conn[c].rout) => conn[c].rout.st = "invalid"
        /\ (conn[c].rin.st = "invalid" \/ conn[c].rout.st = "invalid")
           => /\ conn[c].pc \in {"relay", "returned"}
              /\ conn[c].pc = "returned" => conn[c].ret.variant = "IoError"

\* accept returned IoError after the inbound direction met an
\* application_data record behind a ChangeCipherSpec
OtherTypeAfterCcsIsIoError ==
    \E c \in Conns :
        /\ conn[c].pc = "returned" /\ conn[c].ret.variant = "IoError"
        /\ conn[c].rin.st = "invalid"
        /\ conn[c].rin.has_seen_change_cipher_spec
        /\ conn[c].rin.last = APPLICATION_DATA


\* C11: a copy direction is active only while accept waits in the relay, so
\* nothing after the relay runs beside it; accept goes on to the dummy
\* record only when both directions returned Ok; when the relay fails, the
\* error returned is that of the inbound-to-outbound direction if it
\* failed, and that of the other direction otherwise.
RelayJoinsBothDirections ==
    \A c \in Conns :
        /\ (conn[c].rin.st = "run" \/ conn[c].rout.st = "run")
           => conn[c].pc = "relay"
        /\ (conn[c].pc \in {"read_dummy", "wfull_pong"}
            \/ (conn[c].branch = "full" /\ conn[c].ret.variant = "Ok"))
           => (conn[c].rin.st = "ok" /\ conn[c].rout.st = "ok")
        /\ (conn[c].pc = "returned" /\ conn[c].rin.st \notin {"idle", "ok"})
           => (conn[c].ret.variant = "IoError"
               /\ conn[c].ret.err
                    = [from |-> "inbound", kind |-> conn[c].rin.st])
        /\ (conn[c].pc = "returned" /\ conn[c].rin.st = "ok"
            /\ conn[c].rout.st # "ok")
           => (conn[c].ret.variant = "IoError"
               /\ conn[c].ret.err
                    = [from |-> "outbound", kind |-> conn[c].rout.st])

\* both directions failed, each with another error, and accept returned the
\* one of the inbound-to-outbound direction
BothDirectionsFailed ==
    \E c \in Conns :
        /\ conn[c].pc = "returned"
        /\ conn[c].rin.st = "invalid" /\ conn[c].rout.st = "io"
        /\ conn[c].ret.err.kind = "invalid"

\* C12: when the Noise state was switched to transport mode the connection
\* to the camouflage server had been closed; no return leaves it open: after
\* it was opened, every return closes it, except ServerHelloInvalid, which
\* hands it to the caller.
CamouflageConnectionClosed ==
    \A c \in Conns :
        /\ conn[c].transport > 0
           => (conn[c].g_tx_out = "closed" /\ conn[c].outbound = "closed")
        /\ conn[c].ret.variant = "Ok" => conn[c].outbound = "closed"
        /\ (conn[c].pc = "returned" /\ conn[c].outbound # "none"
            /\ conn[c].ret.variant # "Ok")
           => IF conn[c].ret.variant = "ServerHelloInvalid"
              THEN conn[c].outbound = "handed" /\ conn[c].ret.outbound = c
              ELSE conn[c].outbound = "closed"

\* the relay failed and accept returned with the camouflage connection closed
RelayErrorClosedCamouflage ==
    \E c \in Conns :
        /\ conn[c].pc = "returned" /\ conn[c].ret.variant = "IoError"
        /\ conn[c].rout.st = "invalid"
        /\ conn[c].outbound = "closed"

\* C13: in the resumed branch the records written to inbound are, in order,
\* the camouflage server's ServerHello with its random replaced by the
\* masked pong[0..32], the next record it sent unchanged, and the record
\* after that with its first 16 body bytes replaced by pong[32..48]; a
\* successful accept wrote exactly these three.
ResumedBranchRecords ==
    \A c \in Conns :
        conn[c].branch = "resumed" =>
            LET out == conn[c].read_out
                pong == conn[c].pong
                want == <<[out[1] EXCEPT !.random = pong.q0]>>
                        \o (IF Len(out) >= 2 THEN <<out[2]>> ELSE <<>>)
                        \o (IF Len(out) >= 3
                            THEN <<[out[3] EXCEPT !.body.f16 = pong.q1]>>
                            ELSE <<>>)
            IN  /\ pong.q0 = Xor(NoiseWritePong(server_key, conn[c].e, c).q0,
                                 PointMask(server_key))
                /\ pong.q1 = NoiseWritePong(server_key, conn[c].e, c).q1
                /\ Len(conn[c].sent_in) <= Len(want)
                /\ \A i \in 1..Len(conn[c].sent_in) :
                     conn[c].sent_in[i] = want[i]
                /\ conn[c].ret.variant = "Ok"
                   => (Len(out) = 3 /\ conn[c].sent_in = want)

\* accept succeeded in the resumed branch
ResumedBranchDone ==
    \E c \in Conns :
        /\ conn[c].branch = "resumed" /\ conn[c].ret.variant = "Ok"
        /\ Len(conn[c].sent_in) = 3
        /\ conn[c].sent_in[2].ctype = CHANGE_CIPHER_SPEC
        /\ conn[c].sent_in[3].body.f16 = conn[c].pong.q1
        /\ conn[c].sent_in[3].blen = conn[c].read_out[3].blen


\* the layout C14 names: type 0x17, version 0x03 0x03, a body length L with
\* 108 <= L < 908, and 5 + L bytes written
PaddedRecordLayout(r) ==
    /\ r.ctype = 23 /\ r.ver = <<3, 3>>
    /\ 108 <= r.blen /\ r.blen < 908
    /\ r.nbytes = 5 + r.blen

\* the pong record connection c is writing or has written, if any
PongRecordsOf(c) ==
    (IF conn[c].pc \in {"w13_pong", "wfull_pong"} THEN {conn[c].buf} ELSE {})
    \cup (IF conn[c].ret.variant = "Ok" /\ conn[c].branch \in {"tls13", "full"}
          THEN {conn[c].sent_in[Len(conn[c].sent_in)]} ELSE {})

\* the dummy record the client has written, if any
ClientDummies ==
    IF cli.branch = "full" /\ cli.pc \in {"cfull_pong", "returned"}
       /\ Len(cli.sent) > 1 + Len(ClientFlight)
    THEN {cli.sent[Len(cli.sent)]} ELSE {}

\* C14: every dummy record of the client and every pong record of the server
\* starts with 0x17 0x03 0x03 and the big-endian body length L, 108 <= L <
\* 908, is written in 5 + L bytes, and the first 48 body bytes of the
\* server's record are the pong with its bytes 0..32 masked.
PaddedRecordsWellFormed ==
    /\ \A r \in ClientDummies : PaddedRecordLayout(r)
    /\ \A c \in Conns : \A r \in PongRecordsOf(c) :
         /\ PaddedRecordLayout(r)
         /\ r.body.b0 = Xor(NoiseWritePong(server_key, conn[c].e, c).q0,
                            PointMask(server_key))
         /\ r.body.b1 = NoiseWritePong(server_key, conn[c].e, c).q1

\* a full handshake in which the dummy had the shortest and the pong record
\* the longest body, both written
ShortDummyLongPong ==
    /\ conn[1].ret.variant = "Ok" /\ conn[1].branch = "full"
    /\ \E r \in PongRecordsOf(1) : r.blen = 907
    /\ \E r \in ClientDummies : r.blen = 108


\* C15: in every pong record the server writes, all bytes after the 48 pong
\* bytes up to the end of the record were filled at random (as claimed: the
\* code fills buf[5 + 48..len - 48] only, and the bytes from len - 48 to the
\* end keep what the buffer held or were never written).
PongPaddingAllRandom ==
    \A c \in Conns : \A r \in PongRecordsOf(c) :
        /\ r.body.fill = <<TLS_RECORD_HEADER_LENGTH + 48, r.nbytes>>
        /\ r.body.tail = "none"


\* the record connection c read first is a ClientHello
ValidClientHello(c) == conn[c].wire.ok /\ conn[c].wire.hs = "ClientHello"

\* C16: the checks of accept_with_early_data run in the order ClientHello
\* validity, authentication, replay check, ServerHello, and the first that
\* fails decides the variant: a first record that is no ClientHello returns
\* ClientHelloInvalid (or the I/O error of the read); a ClientHello no token
\* verifies returns Unauthenticated without the replay filter being
\* consulted, whatever the filter holds; ReplayDetected is returned only for
\* an authenticated ping; ServerHelloInvalid only after the replay check
\* passed.
ErrorPrecedence ==
    \A c \in Conns : conn[c].pc = "returned" =>
        /\ ~ValidClientHello(c)
             => conn[c].ret.variant \in {"ClientHelloInvalid", "IoError"}
        /\ (ValidClientHello(c) /\ NoTokenVerifies(c))
             => (conn[c].ret.variant = "Unauthenticated"
                 /\ conn[c].rchk = "none")
        /\ conn[c].ret.variant = "ReplayDetected"
             => (ValidClientHello(c) /\ ~NoTokenVerifies(c)
                 /\ conn[c].rchk = "replay")
        /\ conn[c].ret.variant = "ServerHelloInvalid"
             => (ValidClientHello(c) /\ ~NoTokenVerifies(c)
                 /\ conn[c].rchk = "pass")

\* a ClientHello that does not authenticate was turned away as
\* Unauthenticated while its unmasked random is a nonce the filter holds
UnauthenticatedWithStoredNonce ==
    \E c \in Conns :
        /\ conn[c].pc = "returned"
        /\ conn[c].ret.variant = "Unauthenticated"
        /\ ServerPing(conn[c].wire, PointMask(server_key)).p0
             \in LruKeys(replay_filter)


\* the pong of connection c is among the bytes written to inbound
PongWritten(c) ==
    LET k == conn[c]
    IN  IF k.branch = "resumed"
        THEN /\ Len(k.sent_in) >= 3
             /\ k.sent_in[1].random = k.pong.q0
             /\ k.sent_in[3].body.f16 = k.pong.q1
        ELSE /\ Len(k.sent_in) >= 2
             /\ k.sent_in[Len(k.sent_in)].body.b0 = k.pong.q0
             /\ k.sent_in[Len(k.sent_in)].body.b1 = k.pong.q1

\* C17: on the server and on the client the Noise state goes to transport
\* mode at most once per connection, exactly when the call returns its
\* SnowyStream and on no error path; on the server after the ping was read
\* successfully and every record carrying the pong was written, on the
\* client after the pong was read successfully.
TransportModeOnce ==
    /\ \A c \in Conns :
         /\ conn[c].transport <= 1
         /\ conn[c].transport = 1
              <=> (conn[c].pc = "returned" /\ conn[c].ret.variant = "Ok")
         /\ conn[c].transport = 1
              => /\ ValidClientHello(c) /\ ~NoTokenVerifies(c)
                 /\ conn[c].pong # NoPong /\ PongWritten(c)
                 /\ conn[c].g_tx_wrote = Len(conn[c].sent_in)
    /\ cli.transport <= 1
    /\ cli.transport = 1 <=> (cli.pc = "returned" /\ cli.res = "Ok")
    /\ cli.transport = 1 => NoiseReadPong(cli.key, cli.e, cli.pong)

\* accept returned a SnowyStream after a resumed handshake
TransportAfterResumed ==
    \E c \in Conns :
        /\ conn[c].transport = 1 /\ conn[c].branch = "resumed"
        /\ conn[c].ret.variant = "Ok"


\* C18: a record header read in tls12_handshake that declares more bytes
\* than the receive buffer holds after the header ends the call with an
\* error (as claimed: the code has no such check, and the slice
\* buf[5..5 + len] of the buffer of 5 + 16640 bytes panics).
LongRecordRejectedWithError ==
    cli.rlen > MAXIMUM_CIPHERTEXT_LENGTH
        => (cli.pc = "returned" /\ cli.res \in {"InvalidData", "Io"})


\* connect_with_early_data and accept_with_early_data both returned their
\* SnowyStream
BothEstablished == cli.res = "Ok" /\ conn[1].ret.variant = "Ok"

\* C19: with the same key, clocks inside the window, a fresh ephemeral and a
\* well-behaved camouflage server, under fair scheduling of both tasks and
\* delivery of what was written, client and server both eventually return a
\* SnowyStream, whichever of the three branches the ServerHello selects; in
\* particular they never end up each waiting for the other.
HandshakeProgress ==
    /\ <>BothEstablished
    /\ \A b \in {"tls13", "resumed", "full"} :
         (conn[1].branch = b) ~> (BothEstablished /\ cli.branch = b
                                  /\ conn[1].branch = b)

\* both ends returned a SnowyStream after a full TLS 1.2 handshake through
\* the relay
FullHandshakeEstablished ==
    /\ BothEstablished
    /\ cli.branch = "full" /\ conn[1].branch = "full"
    /\ conn[1].rin.n = Len(ClientFlight)
    /\ conn[1].rout.n = Len(CamouflageFull)


\* C20: the session_id of the ClientHello is 32 bytes; in the current client
\* it is the 16 bytes of early-data ciphertext followed by the AEAD tag
\* XORed with the current TOTP token, in the older client 16 bytes of the
\* Noise message followed by a 16-byte TOTP signature; the random is always
\* the masked 32 bytes ping[0..32] (as claimed: the older client puts the
\* ephemeral into the random as it is).
ClientHelloCarriesMaskedPing ==
    Len(cli.sent) >= 1 =>
        LET h == cli.sent[1]
            t == now + env.drift
            noise == NoiseWritePing(cli.key, cli.e,
                                    IF cli.older THEN 0 - 2 ELSE cli.early_data)
        IN  /\ h.sid.len = 32
            /\ h.sid = cli.sid
            /\ h.random = Xor(noise.p0, PointMask(cli.key))
            /\ ~cli.older => /\ h.sid.lo = noise.p1
                             /\ h.sid.hi = Xor(noise.p2,
                                               GenerateCurrent(cli.key, t))
            /\ cli.older => /\ h.sid.lo = noise.p2
                            /\ h.sid.hi = SignCurrent(cli.key, t, noise.p0)


\* 32-byte values the mask is applied to: every combination of the
\* ephemerals, the masks themselves and foreign bytes
MaskInputs ==
    SUBSET ({EphAtom(1), SrvEphAtom(1), JunkAtom(1)}
            \cup {MaskAtom(k) : k \in Keys})

\* C21: applying the point mask of a key twice gives every value back;
\* client and server built from the same key hold the same mask, so the
\* ephemeral the server gets by unmasking the ClientHello random is the one
\* the client's Noise write produced, and the ephemeral the client gets by
\* unmasking the pong is the one the server's Noise write produced.
MaskInvolution ==
    /\ \A key \in Keys : \A x \in MaskInputs :
         Xor(Xor(x, PointMask(key)), PointMask(key)) = x
    /\ conn[1].pc # "idle"
         => conn[1].ping.p0
              = NoiseWritePing(cli.key, cli.e, cli.early_data).p0
    /\ cli.res = "Ok"
         => cli.pong.q0 = NoiseWritePong(server_key, conn[1].e, 1).q0

\* the client unmasked the pong ephemeral out of a rewritten ServerHello
\* random and its Noise read succeeded
UnmaskedFromServerHello ==
    /\ cli.res = "Ok" /\ cli.branch = "resumed"
    /\ cli.pong.q0 = {SrvEphAtom(1)}
    /\ conn[1].sent_in[1].random = Xor({SrvEphAtom(1)}, PointMask(server_key))

\* the client handed cli.pong to its Noise read (client.rs 280-282)
ClientReachedNoiseRead ==
    cli.pc = "returned"
      /\ (cli.res = "Ok" \/ cli.deviation = "noise_read")

\* C22: with the records between server and client delivered unmodified, the
\* 48 bytes the client passes to its Noise read are the 48 bytes the server's
\* Noise write produced; in TLS 1.3 and TLS 1.2 full they are the first 48
\* body bytes of the application_data record the server wrote last, bytes
\* 0..32 unmasked, and in TLS 1.2 resumed the unmasked random of the
\* ServerHello the server wrote followed by the first 16 body bytes of the
\* Finished record it wrote
PongRoundTrip ==
    ClientReachedNoiseRead =>
      LET sent == conn[1].sent_in
          last == sent[Len(sent)]
      IN  /\ cli.pong = NoiseWritePong(server_key, conn[1].e, 1)
          /\ cli.branch = conn[1].branch
          /\ cli.branch \in {"tls13", "full"} =>
               /\ Len(sent) = 2 /\ last.ctype = APPLICATION_DATA
               /\ cli.pong.q0 = Xor(last.body.b0, PointMask(cli.key))
               /\ cli.pong.q1 = last.body.b1
          /\ cli.branch = "resumed" =>
               /\ Len(sent) = 3 /\ last.ctype = HANDSHAKE
               /\ cli.pong.q0 = Xor(sent[1].random, PointMask(cli.key))
               /\ cli.pong.q1 = last.body.f16

PongReadInFullBranch ==
    /\ cli.res = "Ok" /\ cli.branch = "full"
    /\ cli.buf.ctype = APPLICATION_DATA
    /\ cli.buf.body.b1 = {PongTagAtom(server_key, conn[1].e, 1)}
    /\ cli.pong.q1 = cli.buf.body.b1

\* the branch a ServerHello selects for the ClientHello session_id sid, as
\* the claim of branch agreement words it
BranchOf(sid, sh) ==
    IF sh.tls13 THEN "tls13"
    ELSE IF sh.sid = sid THEN "resumed" ELSE "full"

\* C23: on one connection the client and the server select the same branch:
\* TLS 1.3 when the camouflage ServerHello negotiates TLS 1.3, whatever its
\* session_id; otherwise resumed exactly when the ServerHello session_id
\* equals the ClientHello session_id, and full in the remaining case; the
\* ServerHello the server writes to inbound differs from the camouflage's
\* at most in its random
BranchAgreement ==
    LET sh == conn[1].read_out[1]
        fwd == conn[1].sent_in[1]
    IN  /\ conn[1].branch # "none" =>
             conn[1].branch = BranchOf(cli.sid, sh)
        /\ cli.branch # "none" =>
             /\ cli.branch = BranchOf(cli.sid, sh)
             /\ cli.branch = conn[1].branch
        /\ Len(conn[1].sent_in) >= 1 =>
             /\ [fwd EXCEPT !.random = sh.random] = sh
             /\ BranchOf(cli.sid, fwd) = BranchOf(cli.sid, sh)

Tls13WithEchoedSessionId ==
    /\ cli.branch = "tls13" /\ conn[1].branch = "tls13"
    /\ conn[1].read_out[1].sid = cli.sid
    /\ conn[1].read_out[1].tls13

\* C24: when accept returns ClientHelloInvalid, Unauthenticated or
\* ReplayDetected, it has written nothing to inbound and has not opened a
\* connection to the camouflage server; when it returns ServerHelloInvalid
\* it has written nothing to inbound; whenever something was written to
\* inbound, a token of the window had verified the ping, the replay check
\* had passed and the camouflage server's ServerHello had been read and was
\* valid.
SilentBeforeAuthentication ==
    \A c \in Conns :
        /\ conn[c].ret.variant \in {"ClientHelloInvalid", "Unauthenticated",
                                    "ReplayDetected"}
           => /\ conn[c].sent_in = <<>>
              /\ conn[c].outbound = "none"
              /\ conn[c].sent_out = <<>> /\ conn[c].read_out = <<>>
        /\ conn[c].ret.variant = "ServerHelloInvalid"
           => conn[c].sent_in = <<>>
        /\ conn[c].sent_in # <<>>
           => /\ ValidClientHello(c) /\ ~NoTokenVerifies(c)
              /\ conn[c].rchk = "pass"
              /\ Len(conn[c].read_out) >= 1
              /\ conn[c].read_out[1].ok
              /\ conn[c].read_out[1].hs = "ServerHello"

\* accept returned ServerHelloInvalid after the ping was verified and the
\* ClientHello forwarded, handing over the camouflage connection, and had
\* written nothing to inbound
TurnedAwayInSilence ==
    \E c \in Conns :
        /\ conn[c].ret.variant = "ServerHelloInvalid"
        /\ conn[c].outbound = "handed" /\ conn[c].rchk = "pass"
        /\ Len(conn[c].sent_out) = 1 /\ Len(conn[c].read_out) = 1
        /\ conn[c].sent_in = <<>>

\* connection c holds a ping that a token of the window verified, and its
\* nonce is the unmasked random of the ClientHello it read
HoldsVerifiedPing(c) ==
    /\ ValidClientHello(c) /\ ~NoTokenVerifies(c)
    /\ conn[c].e = Xor(conn[c].wire.random, PointMask(server_key))

\* C25: the replay filter changes only in a step of a connection that holds
\* a verified ping, and the only key such a step can add is the unmasked
\* ephemeral of that ping; an accept that ends in ClientHelloInvalid or
\* Unauthenticated never looked at the filter and leaves its contents and
\* their order as they were.
OnlyVerifiedPingsReachFilter ==
    /\ [][/\ replay_filter' # replay_filter =>
               \E c \in Conns :
                 /\ conn[c].pc \in {"rf_get", "rf_put"}
                 /\ conn'[c].pc # conn[c].pc
                 /\ HoldsVerifiedPing(c)
                 /\ LruKeys(replay_filter')
                      \subseteq LruKeys(replay_filter) \cup {conn[c].e}
          /\ \A c \in Conns :
               (conn[c].pc = "idle"
                  /\ conn'[c].ret.variant \in {"ClientHelloInvalid",
                                               "Unauthenticated"})
                 => replay_filter' = replay_filter]_vars
    /\ [](\A c \in Conns :
            conn[c].ret.variant \in {"ClientHelloInvalid", "Unauthenticated"}
              => conn[c].rchk = "none" /\ conn[c].e = {})

\* a peer without the key was turned away while the filter held a nonce
UnauthenticatedBesideStoredNonce ==
    \E c \in Conns :
        /\ conn[c].ret.variant = "Unauthenticated"
        /\ conn[c].wire.sid.lo # {} /\ NoTokenVerifies(c)
        /\ Len(replay_filter) >= 1
        /\ conn[c].e \notin LruKeys(replay_filter)

(***************************************************************************)
(* RetainSpec: accept after accept on one server, by clients that hold the *)
(* key and by peers that present captured ClientHellos again, within one   *)
(* TOTP step; more ClientHellos than the replay filter holds.              *)
(***************************************************************************)
RetainInit ==
    InitWith([slots |-> {1}, addrs |-> {1}, fresh |-> replay_filter_size + 1,
              eds |-> {0}, ticks |-> 0, tamper |-> {FALSE}, drift |-> 0])

RetainNext ==
    \E c \in Conns :
        \/ AcceptFresh(c) \/ AcceptCaptured(c)
        \/ RfLock(c) \/ RfGet(c) \/ RfPut(c)
        \/ ConnectCamouflage(c) \/ ForwardClientHello(c)
        \/ ReadServerHello(c) \/ WriteServerHello13(c) \/ WritePong13(c)
        \/ WriteServerHelloResumed(c) \/ ReadChangeCipherSpecResumed(c)
        \/ WriteChangeCipherSpecResumed(c) \/ ReadFinishedResumed(c)
        \/ WriteFinishedResumed(c)
        \/ WriteServerHelloFull(c) \/ CopyInbound(c) \/ CopyOutbound(c)
        \/ RelayJoined(c) \/ ReadDummy(c) \/ WritePongFull(c)
        \/ Cancel(c) \/ Close(c)

RetainSpec == RetainInit /\ [][RetainNext]_vars

BytesBetween(stream, from, to) ==
    BytesBefore(stream, to) - BytesBefore(stream, from)

\* C27: every turn a relay direction completed wrote the five header bytes
\* of the record it met and the body bytes it read, all of them and no
\* others, so the direction wrote as many bytes as it took, and it took the
\* bytes of whole records only; after a successful relay the next unread
\* record on inbound is the client's dummy, the inbound direction has
\* forwarded the client's flight and nothing else, and the dummy is never
\* written to the camouflage server.
RelayCopiesExactly ==
    \A c \in Conns :
        /\ \A dir \in {conn[c].rin, conn[c].rout} :
             dir.n > 0 =>
               /\ dir.wrote.hdr = RecordHeader(dir.read.ctype, dir.read.blen)
               /\ dir.wrote.body = <<0, dir.read.blen>>
               /\ dir.put = dir.taken
               /\ dir.data_buf >= dir.read.blen
        /\ (c = 1 /\ conn[c].rin.n > 0) =>
             /\ Len(cli.sent) >= 1 + conn[c].rin.n
             /\ conn[c].rin.taken
                  = BytesBetween(cli.sent, 2, 2 + conn[c].rin.n)
        /\ (c = 1 /\ conn[c].pc = "read_dummy" /\ ClientDummies # {}) =>
             InboundHead \in ClientDummies
        /\ (c = 1 /\ conn[c].branch = "full"
              /\ (conn[c].pc \in {"read_dummy", "wfull_pong"}
                    \/ conn[c].ret.variant = "Ok")) =>
             /\ conn[c].rin.put
                  = BytesBetween(cli.sent, 2, 2 + Len(ClientFlight))
             /\ conn[c].sent_out = <<cli.sent[1]>>

\* the relay has ended well, the server has read the client's dummy and
\* holds the pong record; the inbound direction took the client's flight
DummyReadAfterRelay ==
    /\ conn[1].pc = "wfull_pong" /\ cli.pc = "cfull_pong"
    /\ conn[1].rin.st = "ok" /\ conn[1].rout.st = "ok"
    /\ conn[1].rin.n = Len(ClientFlight)
    /\ conn[1].rin.taken = BytesBetween(cli.sent, 2, Len(cli.sent))
    /\ conn[1].rin.wrote.hdr = RecordHeader(HANDSHAKE, ClientFlight[3].blen)

\* a relay direction has returned
DirectionFinished(dir) == dir.st \notin {"idle", "run"}

\* C28: in the TLS 1.2 full branch the server builds the pong record only in
\* the step that read a record from inbound after both relay directions had
\* returned, writes it to inbound only then, and writes nothing to inbound
\* after it; the client leaves its TLS 1.2 handshake loop before it writes
\* the dummy, takes no turn of the loop afterwards, and reads the pong
\* record only after the dummy was written.
FullBranchOrdering ==
    /\ [][\A c \in Conns :
            /\ (conn'[c].pc = "wfull_pong" /\ conn[c].pc # "wfull_pong")
                 => /\ conn[c].pc = "read_dummy"
                    /\ DirectionFinished(conn[c].rin)
                    /\ DirectionFinished(conn[c].rout)
                    /\ conn'[c].buf.body.b0 = conn[c].pong.q0
            /\ (conn[c].branch = "full" /\ Len(conn[c].sent_in) >= 1
                  /\ Len(conn'[c].sent_in) > Len(conn[c].sent_in))
                 => /\ conn[c].pc = "wfull_pong"
                    /\ conn'[c].sent_in = Append(conn[c].sent_in, conn[c].buf)
                    /\ conn'[c].rin = conn[c].rin
                    /\ conn'[c].rout = conn[c].rout
            /\ (conn[c].branch = "full" /\ Len(conn[c].sent_in) >= 2)
                 => \/ conn'[c] = IdleConn
                    \/ /\ conn'[c].sent_in = conn[c].sent_in
                       /\ conn'[c].rout.put = conn[c].rout.put]_vars
    /\ [][/\ (cli'.pc = "write_dummy" /\ cli.pc # "write_dummy")
               => cli.pc = "tls12"
          /\ Len(cli'.sent) > Len(cli.sent)
               => \/ cli.pc \in {"idle", "tls12"}
                  \/ /\ cli.pc = "write_dummy" /\ cli'.pc = "cfull_pong"
                     /\ \E l \in PongLens :
                          cli'.sent = Append(cli.sent, DummyRecord(l))
          /\ cli.pc \in {"write_dummy", "cfull_pong"}
               => cli'.n = cli.n /\ cli'.seen_ccs = cli.seen_ccs
          /\ (cli.branch = "full" /\ cli.pc # "tls12" /\ cli'.rd > cli.rd)
               => /\ cli.pc = "cfull_pong"
                  /\ cli.sent[Len(cli.sent)]
                       \in {DummyRecord(l) : l \in PongLens}]_vars

\* accept succeeded in the full branch: the pong record is the second and
\* last record written to inbound, behind the ServerHello
PongWrittenLast ==
    \E c \in Conns :
        /\ conn[c].ret.variant = "Ok" /\ conn[c].branch = "full"
        /\ DirectionFinished(conn[c].rin) /\ DirectionFinished(conn[c].rout)
        /\ Len(conn[c].sent_in) = 2
        /\ conn[c].sent_in[2].ctype = APPLICATION_DATA
        /\ conn[c].sent_in[2].body.b1 = conn[c].pong.q1

\* C29: in the resumed branch of the client a well-framed Finished record
\* whose body is shorter than 16 bytes makes connect_with_early_data return
\* an InvalidData error (as claimed: the guard before the copy tests the
\* length of the 48-byte pong array, not that of the record, and the slice
\* buf[5..21] of the shorter record panics).
ShortFinishedIsInvalidData ==
    (/\ cli.pc = "returned" /\ cli.branch = "resumed"
     /\ cli.rd = Len(CamouflageResumed) + 1
     /\ cli.buf.ok /\ cli.buf.blen < 16)
    => cli.res = "InvalidData"

\* the token loop run again on the ClientHello connection c read, with the
\* tokens of the window at that time taken in the order p
TokenLoopOf(c, p) ==
    LET tokens == GenerateCurrentSkewed(server_key, conn[c].at, skew)
    IN  AuthLoop([i \in DOMAIN tokens |-> tokens[p[i]]], server_key,
                 ServerPing(conn[c].wire, PointMask(server_key)), FALSE)

\* C30: the token loop makes at most 2 * skew + 1 Noise read attempts, the
\* last of them the first that succeeds; the verifying attempt sees the
\* received ping[48..64] with that one token applied, and a loop in which
\* every attempt failed leaves the ping as received; ping[0..48] is never
\* changed; the loop verifies exactly when some token of the window does,
\* in whatever order the tokens are tried.
TokenLoopRestoresPing ==
    \A c \in Conns :
        ValidClientHello(c) =>
            LET tokens == GenerateCurrentSkewed(server_key, conn[c].at, skew)
                received == ServerPing(conn[c].wire, PointMask(server_key))
                id == [i \in DOMAIN tokens |-> i]
                a == TokenLoopOf(c, id)
            IN  /\ Len(tokens) = 2 * skew + 1
                /\ a.attempts <= 2 * skew + 1
                /\ conn[c].ping = a.ping
                /\ a.ping.p0 = received.p0 /\ a.ping.p1 = received.p1
                /\ a.verified <=> ~NoTokenVerifies(c)
                /\ ~a.verified =>
                     a.attempts = 2 * skew + 1 /\ a.ping = received
                /\ a.verified =>
                     /\ a.ping.p2 = Xor(received.p2, tokens[a.attempts])
                     /\ NoiseReadPing(server_key, a.ping).ok
                     /\ \A i \in 1..(a.attempts - 1) :
                          ~NoiseReadPing(
                              server_key,
                              [received EXCEPT !.p2 = Xor(@, tokens[i])]).ok
                /\ \A p \in Permutations(DOMAIN tokens) :
                     TokenLoopOf(c, p).verified = a.verified

\* the last token of the window verified the ping, after every other token
\* had failed and been taken off again
LastTokenVerified ==
    \E c \in Conns :
        LET a == TokenLoopOf(c, [i \in 1..(2 * skew + 1) |-> i])
        IN  /\ ValidClientHello(c)
            /\ a.verified /\ a.attempts = 2 * skew + 1
            /\ conn[c].e # {}


\* ---------------------------------------------------------------------
\* C31: the drive loop of tls12_handshake with stop_after_server_ccs =
\* false.  In every turn of the loop: if the TLS library has pending output
\* the turn takes the write arm, reads no record and either appends the
\* output to the stream or fails on the write; the loop is left with Ok only
\* by a turn that read a record while the server's ChangeCipherSpec had
\* already been read, or by a turn in which the library wanted neither to
\* read nor to write; and a TLS state error reported by the library on a
\* record ends the call with InvalidData.
Tls12LoopTurn ==
    (cli.pc = "tls12" /\ cli' # cli) =>
        LET t == cli'.turn IN
        /\ t.arm # "none"
        /\ t.wants_write =>
             /\ t.arm = "write"
             /\ cli'.rd = cli.rd /\ cli'.seen_ccs = cli.seen_ccs
             /\ \/ cli'.pc = "tls12" /\ Len(cli'.sent) > Len(cli.sent)
                \/ cli'.pc = "returned" /\ cli'.res = "Io"
        /\ cli'.pc = "write_dummy" =>
             \/ /\ t.arm = "read" /\ cli'.rd = cli.rd + 1
                /\ cli.seen_ccs /\ cli'.last # CHANGE_CIPHER_SPEC
             \/ /\ t.arm = "break" /\ ~t.wants_read /\ ~t.wants_write
                /\ cli'.rd = cli.rd
        /\ cli'.deviation = "tls_state" =>
             /\ t.arm = "read"
             /\ cli'.pc = "returned" /\ cli'.res = "InvalidData"

Tls12DriveLoop == [][Tls12LoopTurn]_vars

\* the loop wrote pending output while the library also wanted to read, and
\* later left with Ok on a record read after the ChangeCipherSpec
WroteBeforeReadThenLeft ==
    /\ cli.pc = "write_dummy"
    /\ cli.turn.arm = "read" /\ cli.seen_ccs
    /\ cli.last # CHANGE_CIPHER_SPEC
    /\ Len(cli.sent) > 1


\* ---------------------------------------------------------------------
\* C32: in the TLS 1.3 branch and in the TLS 1.2 full branch the first
\* record written to inbound is the ServerHello record exactly as it was
\* read from the camouflage server, and that is the only record the
\* handshake reads from it by read_tls_message.  In the TLS 1.3 branch at
\* most two records are written to inbound: that ServerHello and then the
\* pong record the server builds itself; a successful accept wrote exactly
\* these two, and no record is relayed in either direction.
ServerHelloForwardedUnmodified ==
    \A c \in Conns :
        conn[c].branch \in {"tls13", "full"} =>
            LET k == conn[c] IN
            /\ Len(k.read_out) = 1
            /\ k.pc \in {"w13_sh", "wfull_sh"} =>
                 (k.buf = k.read_out[1] /\ k.sent_in = <<>>)
            /\ Len(k.sent_in) >= 1 => k.sent_in[1] = k.read_out[1]
            /\ k.branch = "tls13" =>
                 /\ Len(k.sent_in) <= 2
                 /\ Len(k.sent_in) = 2 =>
                      \E len \in PongLens :
                        k.sent_in[2] = PongRecord(k.read_out[1], k.pong, len)
                 /\ k.ret.variant = "Ok" => Len(k.sent_in) = 2
                 /\ k.rin = NoDir /\ k.rout = NoDir

\* accept succeeded in the TLS 1.3 branch after writing the ServerHello it
\* read and one more record
Tls13BranchWroteTwoRecords ==
    \E c \in Conns :
        /\ conn[c].branch = "tls13" /\ conn[c].ret.variant = "Ok"
        /\ Len(conn[c].sent_in) = 2
        /\ conn[c].sent_in[1] = conn[c].read_out[1]
        /\ conn[c].sent_in[1].tls13
        /\ conn[c].sent_in[2].ctype = APPLICATION_DATA

=============================================================================
